---- MODULE Spec2Model ----
(***************************************************************************)
(* Medical camp data entry (src/main.py, class MedicalCampDataEntry).      *)
(*                                                                         *)
(* Text is modelled as follows.                                            *)
(*  - A line typed at a prompt and every stored cell that holds a number   *)
(*    (Age, Blood Pressure, Blood Sugar, Weight, Height (cm), BMI) is a    *)
(*    sequence of one-character strings; "" is the empty sequence.         *)
(*  - An advisory text is the sequence of its blank-separated words; the   *)
(*    leading pictograph is the word "(siren)", "(warning)", "(bolt)",     *)
(*    "(check)", "(clipboard)" or "(cross)".  Python's `x in text` with a  *)
(*    needle made of whole words is then the search of a contiguous run of *)
(*    words (every needle of the source starts and ends at a word          *)
(*    boundary of every advisory it is searched in).                       *)
(*  - A float is the integer number of 1/Scale units it denotes.           *)
(***************************************************************************)
EXTENDS Integers, Sequences, FiniteSets, TLC

VARIABLES data, pc, patient, inp, added, saved, wb_rows, high_priority,
          medium_priority, out, arg, res

vars == <<data, pc, patient, inp, added, saved, wb_rows, high_priority,
          medium_priority, out, arg, res>>

(* ------------------------------ bounds -------------------------------- *)

MaxLoaded == 1

MaxAdded == 1

MaxSys == 185

MaxDia == 125

(* ------------------------------- text --------------------------------- *)

Scale == 10 ^ 5

Digits == <<"0", "1", "2", "3", "4", "5", "6", "7", "8", "9">>

IsDigit(c) == \E k \in 1..10 : Digits[k] = c

DigitVal(c) == (CHOOSE k \in 1..10 : Digits[k] = c) - 1

AllDigits(s) == \A k \in 1..Len(s) : IsDigit(s[k])

RECURSIVE Strip(_)
Strip(s) ==
    IF s = <<>> THEN s
    ELSE IF Head(s) = " " THEN Strip(Tail(s))
    ELSE IF s[Len(s)] = " " THEN Strip(SubSeq(s, 1, Len(s) - 1))
    ELSE s

RECURSIVE DigitsVal(_)
DigitsVal(s) ==
    IF s = <<>> THEN 0
    ELSE 10 * DigitsVal(SubSeq(s, 1, Len(s) - 1)) + DigitVal(s[Len(s)])

RECURSIVE NatToStr(_)
NatToStr(n) ==
    IF n < 10 THEN <<Digits[n + 1]>>
    ELSE NatToStr(n \div 10) \o <<Digits[(n % 10) + 1]>>

IntToStr(n) == IF n < 0 THEN <<"-">> \o NatToStr(-n) ELSE NatToStr(n)

HasSign(s) == s # <<>> /\ Head(s) \in {"-", "+"}

Unsigned(s) == IF HasSign(s) THEN Tail(s) ELSE s

Signed(s, v) == IF s # <<>> /\ Head(s) = "-" THEN -v ELSE v

Index(s, c) ==
    IF \E k \in 1..Len(s) : s[k] = c
    THEN CHOOSE k \in 1..Len(s) : s[k] = c /\ \A j \in 1..(k - 1) : s[j] # c
    ELSE 0

Count(s, c) == Cardinality({k \in 1..Len(s) : s[k] = c})

ParseInt(str) ==
    LET read(s, u) ==
            IF u # <<>> /\ AllDigits(u)
            THEN [ok |-> TRUE, val |-> Signed(s, DigitsVal(u))]
            ELSE [ok |-> FALSE, val |-> 0]
        stripped(s) == read(s, Unsigned(s))
    IN  stripped(Strip(str))

RECURSIVE Pad(_, _)
Pad(s, n) == IF Len(s) >= n THEN SubSeq(s, 1, n) ELSE Pad(s \o <<"0">>, n)

NanTexts == {<<"n", "a", "n">>, <<"N", "a", "N">>, <<"N", "A", "N">>}

ParseFloat(str) ==
    LET read(s, ip, fp) ==
            IF AllDigits(ip) /\ AllDigits(fp) /\ Len(ip) + Len(fp) > 0
            THEN [ok |-> TRUE, nan |-> FALSE,
                  val |-> Signed(s, DigitsVal(ip) * Scale
                                      + DigitsVal(Pad(fp, 5)))]
            ELSE [ok |-> FALSE, nan |-> FALSE, val |-> 0]
        split(s, u, dot) ==
            IF u \in NanTexts THEN [ok |-> TRUE, nan |-> TRUE, val |-> 0]
            ELSE IF dot = 0 THEN read(s, u, <<>>)
            ELSE read(s, SubSeq(u, 1, dot - 1), SubSeq(u, dot + 1, Len(u)))
        unsigned(s, u) == split(s, u, Index(u, "."))
        stripped(s) == unsigned(s, Unsigned(s))
    IN  stripped(Strip(str))

RoundDiv(num, den) ==
    LET q == num \div den
        r == num % den
    IN  IF 2 * r > den \/ (2 * r = den /\ q % 2 = 1) THEN q + 1 ELSE q

IsWhole(v) == v % Scale = 0

Fmt1(v) ==
    LET t == RoundDiv(v, Scale \div 10)
    IN  NatToStr(t \div 10) \o <<".">> \o NatToStr(t % 10)

FmtNum(v) == IF IsWhole(v) THEN IntToStr(v \div Scale) ELSE Fmt1(v)

Contains(needle, text) ==
    \E k \in 0..(Len(text) - Len(needle)) :
        SubSeq(text, k + 1, k + Len(needle)) = needle

RECURSIVE Join_reversed(_)
Join_reversed(parts) ==
    IF parts = <<>> THEN <<>>
    ELSE IF Len(parts) = 1 THEN parts[1]
    ELSE Join_reversed(Tail(parts)) \o <<"|">> \o parts[1]

RECURSIVE Join(_)
Join(parts) ==
    IF parts = <<>> THEN <<>>
    ELSE IF Len(parts) = 1 THEN parts[1]
    ELSE parts[1] \o <<"|">> \o Join(Tail(parts))

(* ---------------------------- advisories ------------------------------ *)

BP_INVALID_FORMAT ==
    <<"(cross)", "Invalid", "format.", "Use", "systolic/diastolic",
      "(e.g.,", "120/80)">>

BP_INVALID_INPUT ==
    <<"(cross)", "Invalid", "input.", "Please", "provide", "numeric",
      "values", "like", "'120/80'">>

BP_CRISIS ==
    <<"(siren)", "HYPERTENSIVE", "CRISIS", "-", "Emergency", "medical",
      "care", "needed">>

BP_HIGH == <<"(siren)", "HIGH", "BP", "-", "Immediate", "medical", "attention">>

BP_SLIGHTLY_HIGH ==
    <<"(warning)", "BP", "Slightly", "higher", "than", "normal.", "Consider",
      "consulting", "doctor.">>

BP_ELEVATED ==
    <<"(bolt)", "ELEVATED", "BP", "-", "Lifestyle", "changes", "recommended">>

BP_NORMAL == <<"(check)", "BP", "is", "normal.">>

BP_LOWER == <<"(warning)", "BP", "is", "lower", "than", "normal.">>

BP_RECORDED == <<"(clipboard)", "BP", "recorded">>

SUGAR_LOW == <<"(warning)", "LOW", "SUGAR", "-", "Hypoglycemia", "risk">>

SUGAR_NORMAL == <<"(check)", "NORMAL", "SUGAR", "-", "Good", "glucose", "level">>

SUGAR_BORDERLINE ==
    <<"(bolt)", "BORDERLINE", "-", "Monitor", "glucose", "levels">>

SUGAR_HIGH == <<"(warning)", "HIGH", "SUGAR", "-", "Pre-diabetic", "range">>

SUGAR_VERY_HIGH ==
    <<"(siren)", "VERY", "HIGH", "SUGAR", "-", "Diabetic", "range,", "see",
      "doctor">>

SUGAR_RECORDED == <<"(clipboard)", "Sugar", "level", "recorded">>

BMI_SEVERELY_UNDERWEIGHT ==
    <<"(siren)", "SEVERELY", "UNDERWEIGHT", "-", "Nutritional", "support",
      "needed">>

BMI_UNDERWEIGHT ==
    <<"(warning)", "UNDERWEIGHT", "-", "Increase", "caloric", "intake">>

BMI_HEALTHY ==
    <<"(check)", "HEALTHY", "WEIGHT", "-", "Maintain", "current", "lifestyle">>

BMI_OVERWEIGHT ==
    <<"(bolt)", "OVERWEIGHT", "-", "Diet", "and", "exercise", "recommended">>

BMI_OBESE == <<"(warning)", "OBESE", "-", "Medical", "consultation", "advised">>

BMI_SEVERELY_OBESE ==
    <<"(siren)", "SEVERELY", "OBESE", "-", "Immediate", "medical", "attention">>

BMI_MORBIDLY_OBESE ==
    <<"(siren)", "MORBIDLY", "OBESE", "-", "Urgent", "medical", "intervention">>

AGE_SENIOR ==
    <<"(senior)", "SENIOR", "-", "Regular", "health", "checkups", "recommended">>

AGE_INFANT == <<"(baby)", "INFANT", "-", "Pediatric", "care", "recommended">>

AGE_CHILD == <<"(child)", "CHILD", "-", "Growth", "monitoring", "important">>

AGE_ADOLESCENT ==
    <<"(boy)", "ADOLESCENT", "-", "Developmental", "checkups", "advised">>

(* ---------------------------- classifiers ----------------------------- *)

(* Float literal d.f of the source, in 1/Scale units (f is one digit). *)
Dec(d, f) == d * Scale + f * (Scale \div 10)

(* round(w * 10^6 / d), digit by digit so that no product leaves 32 bits *)
RECURSIVE LongDiv(_, _, _, _)
LongDiv(q, r, d, k) ==
    IF k = 0
    THEN IF 2 * r > d \/ (2 * r = d /\ q % 2 = 1) THEN q + 1 ELSE q
    ELSE LongDiv(10 * q + ((10 * r) \div d), (10 * r) % d, d, k - 1)

calculate_bmi_whole(weight, height_cm) ==
    LET bmi(w10, d) == LongDiv(w10 \div d, w10 % d, d, 5) * Scale
        tenths(w10, h10) == bmi(w10, h10 * h10)
        floats(w, h) ==
            IF ~w.ok \/ ~h.ok THEN [empty |-> TRUE, nan |-> FALSE, val |-> 0]
            ELSE IF h.nan THEN [empty |-> FALSE, nan |-> TRUE, val |-> 0]
            ELSE IF h.val = 0 THEN [empty |-> TRUE, nan |-> FALSE, val |-> 0]
            ELSE IF w.nan THEN [empty |-> FALSE, nan |-> TRUE, val |-> 0]
            ELSE [empty |-> FALSE, nan |-> FALSE,
                  val |-> tenths(w.val \div (Scale \div 10),
                                 h.val \div (Scale \div 10))]
    IN  floats(ParseFloat(weight), ParseFloat(height_cm))

(* "" is [empty |-> TRUE]; a number is the rounded BMI in 1/Scale units,
   NaN is [nan |-> TRUE]: NaN passes float() and every operation but the
   division by a height of 0. Both texts are read in tenths: add_patient,
   the only caller, passes the texts it stored with at most one decimal. *)
calculate_bmi(weight, height_cm) ==
    LET bmi(w10, d) == LongDiv(w10 \div d, w10 % d, d, 6) * (Scale \div 10)
        tenths(w10, h10) == bmi(w10, h10 * h10)
        floats(w, h) ==
            IF ~w.ok \/ ~h.ok THEN [empty |-> TRUE, nan |-> FALSE, val |-> 0]
            ELSE IF h.nan THEN [empty |-> FALSE, nan |-> TRUE, val |-> 0]
            ELSE IF h.val = 0 THEN [empty |-> TRUE, nan |-> FALSE, val |-> 0]
            ELSE IF w.nan THEN [empty |-> FALSE, nan |-> TRUE, val |-> 0]
            ELSE [empty |-> FALSE, nan |-> FALSE,
                  val |-> tenths(w.val \div (Scale \div 10),
                                 h.val \div (Scale \div 10))]
    IN  floats(ParseFloat(weight), ParseFloat(height_cm))

analyze_blood_pressure_swapped(bp_str) ==
    LET band(sys_val, dia_val) ==
            IF sys_val >= 180 \/ dia_val >= 120 THEN BP_CRISIS
            ELSE IF (130 <= sys_val /\ sys_val <= 139)
                    \/ (80 <= dia_val /\ dia_val <= 89) THEN BP_SLIGHTLY_HIGH
            ELSE IF (140 <= sys_val /\ sys_val <= 179)
                    \/ (90 <= dia_val /\ dia_val <= 119) THEN BP_HIGH
            ELSE IF (120 <= sys_val /\ sys_val <= 129) /\ dia_val < 80
                 THEN BP_ELEVATED
            ELSE IF sys_val < 120 /\ dia_val < 80 THEN BP_NORMAL
            ELSE IF sys_val < 90 \/ dia_val < 60 THEN BP_LOWER
            ELSE BP_RECORDED
        parsed(sys, dia) ==
            IF ~sys.ok \/ ~dia.ok THEN BP_INVALID_INPUT
            ELSE band(sys.val, dia.val)
        split(cut) ==
            parsed(ParseInt(SubSeq(bp_str, 1, cut - 1)),
                   ParseInt(SubSeq(bp_str, cut + 1, Len(bp_str))))
    IN  IF bp_str = <<>> \/ Count(bp_str, "/") = 0 THEN BP_INVALID_FORMAT
        ELSE IF Count(bp_str, "/") # 1 THEN BP_INVALID_INPUT
        ELSE split(Index(bp_str, "/"))

analyze_blood_pressure_low_first(bp_str) ==
    LET band(sys_val, dia_val) ==
            IF sys_val >= 180 \/ dia_val >= 120 THEN BP_CRISIS
            ELSE IF (140 <= sys_val /\ sys_val <= 179)
                    \/ (90 <= dia_val /\ dia_val <= 119) THEN BP_HIGH
            ELSE IF (130 <= sys_val /\ sys_val <= 139)
                    \/ (80 <= dia_val /\ dia_val <= 89) THEN BP_SLIGHTLY_HIGH
            ELSE IF (120 <= sys_val /\ sys_val <= 129) /\ dia_val < 80
                 THEN BP_ELEVATED
            ELSE IF sys_val < 90 \/ dia_val < 60 THEN BP_LOWER
            ELSE IF sys_val < 120 /\ dia_val < 80 THEN BP_NORMAL
            ELSE BP_RECORDED
        parsed(sys, dia) ==
            IF ~sys.ok \/ ~dia.ok THEN BP_INVALID_INPUT
            ELSE band(sys.val, dia.val)
        split(cut) ==
            parsed(ParseInt(SubSeq(bp_str, 1, cut - 1)),
                   ParseInt(SubSeq(bp_str, cut + 1, Len(bp_str))))
    IN  IF bp_str = <<>> \/ Count(bp_str, "/") = 0 THEN BP_INVALID_FORMAT
        ELSE IF Count(bp_str, "/") # 1 THEN BP_INVALID_INPUT
        ELSE split(Index(bp_str, "/"))

analyze_blood_pressure(bp_str) ==
    LET band(sys_val, dia_val) ==
            IF sys_val >= 180 \/ dia_val >= 120 THEN BP_CRISIS
            ELSE IF (140 <= sys_val /\ sys_val <= 179)
                    \/ (90 <= dia_val /\ dia_val <= 119) THEN BP_HIGH
            ELSE IF (130 <= sys_val /\ sys_val <= 139)
                    \/ (80 <= dia_val /\ dia_val <= 89) THEN BP_SLIGHTLY_HIGH
            ELSE IF (120 <= sys_val /\ sys_val <= 129) /\ dia_val < 80
                 THEN BP_ELEVATED
            ELSE IF sys_val < 120 /\ dia_val < 80 THEN BP_NORMAL
            ELSE IF sys_val < 90 \/ dia_val < 60 THEN BP_LOWER
            ELSE BP_RECORDED
        parsed(sys, dia) ==
            IF ~sys.ok \/ ~dia.ok THEN BP_INVALID_INPUT
            ELSE band(sys.val, dia.val)
        split(cut) ==
            parsed(ParseInt(SubSeq(bp_str, 1, cut - 1)),
                   ParseInt(SubSeq(bp_str, cut + 1, Len(bp_str))))
    IN  IF bp_str = <<>> \/ Count(bp_str, "/") = 0 THEN BP_INVALID_FORMAT
        ELSE IF Count(bp_str, "/") # 1 THEN BP_INVALID_INPUT
        ELSE split(Index(bp_str, "/"))

analyze_blood_sugar(sugar_str) ==
    LET band(sugar_val) ==
            IF sugar_val < Dec(3, 9) THEN SUGAR_LOW
            ELSE IF Dec(3, 9) <= sugar_val /\ sugar_val < Dec(5, 6)
                 THEN SUGAR_NORMAL
            ELSE IF Dec(5, 6) <= sugar_val /\ sugar_val < Dec(7, 8)
                 THEN SUGAR_BORDERLINE
            ELSE IF Dec(7, 8) <= sugar_val /\ sugar_val < Dec(11, 1)
                 THEN SUGAR_HIGH
            ELSE IF sugar_val >= Dec(11, 1) THEN SUGAR_VERY_HIGH
            ELSE SUGAR_RECORDED
        parsed(f) ==
            IF ~f.ok THEN <<>>
            ELSE IF f.nan THEN SUGAR_RECORDED
            ELSE band(f.val)
    IN  IF sugar_str = <<>> THEN <<>> ELSE parsed(ParseFloat(sugar_str))

analyze_bmi_health(bmi_str) ==
    LET band(bmi_val) ==
            IF bmi_val < Dec(16, 0) THEN BMI_SEVERELY_UNDERWEIGHT
            ELSE IF Dec(16, 0) <= bmi_val /\ bmi_val < Dec(18, 5)
                 THEN BMI_UNDERWEIGHT
            ELSE IF Dec(18, 5) <= bmi_val /\ bmi_val < Dec(25, 0)
                 THEN BMI_HEALTHY
            ELSE IF Dec(25, 0) <= bmi_val /\ bmi_val < Dec(30, 0)
                 THEN BMI_OVERWEIGHT
            ELSE IF Dec(30, 0) <= bmi_val /\ bmi_val < Dec(35, 0) THEN BMI_OBESE
            ELSE IF Dec(35, 0) <= bmi_val /\ bmi_val < Dec(40, 0)
                 THEN BMI_SEVERELY_OBESE
            ELSE BMI_MORBIDLY_OBESE
        parsed(f) ==
            IF ~f.ok THEN <<>>
            ELSE IF f.nan THEN BMI_MORBIDLY_OBESE
            ELSE band(f.val)
    IN  IF bmi_str = <<>> THEN <<>> ELSE parsed(ParseFloat(bmi_str))

categorize_bmi_closed(bmi) ==
    LET band(bmi_val) ==
            IF bmi_val < Dec(16, 0) THEN <<"Severely", "Underweight">>
            ELSE IF Dec(16, 0) <= bmi_val /\ bmi_val <= Dec(18, 5)
                 THEN <<"Underweight">>
            ELSE IF Dec(18, 5) <= bmi_val /\ bmi_val < Dec(25, 0)
                 THEN <<"Normal">>
            ELSE IF Dec(25, 0) <= bmi_val /\ bmi_val < Dec(30, 0)
                 THEN <<"Overweight">>
            ELSE IF Dec(30, 0) <= bmi_val /\ bmi_val < Dec(35, 0)
                 THEN <<"Obese", "Class", "I">>
            ELSE IF Dec(35, 0) <= bmi_val /\ bmi_val < Dec(40, 0)
                 THEN <<"Obese", "Class", "II">>
            ELSE <<"Obese", "Class", "III">>
        parsed(f) ==
            IF ~f.ok THEN <<>>
            ELSE IF f.nan THEN <<"Obese", "Class", "III">>
            ELSE band(f.val)
    IN  parsed(ParseFloat(bmi))

(* the category shown next to a BMI; float("") raises ValueError as any
   other text that is no number, and no comparison holds of NaN *)
categorize_bmi(bmi) ==
    LET band(bmi_val) ==
            IF bmi_val < Dec(16, 0) THEN <<"Severely", "Underweight">>
            ELSE IF Dec(16, 0) <= bmi_val /\ bmi_val < Dec(18, 5)
                 THEN <<"Underweight">>
            ELSE IF Dec(18, 5) <= bmi_val /\ bmi_val < Dec(25, 0)
                 THEN <<"Normal">>
            ELSE IF Dec(25, 0) <= bmi_val /\ bmi_val < Dec(30, 0)
                 THEN <<"Overweight">>
            ELSE IF Dec(30, 0) <= bmi_val /\ bmi_val < Dec(35, 0)
                 THEN <<"Obese", "Class", "I">>
            ELSE IF Dec(35, 0) <= bmi_val /\ bmi_val < Dec(40, 0)
                 THEN <<"Obese", "Class", "II">>
            ELSE <<"Obese", "Class", "III">>
        parsed(f) ==
            IF ~f.ok THEN <<>>
            ELSE IF f.nan THEN <<"Obese", "Class", "III">>
            ELSE band(f.val)
    IN  parsed(ParseFloat(bmi))

(* ---------------------------- converters ------------------------------ *)

Upper ==
    <<"A", "B", "C", "D", "E", "F", "G", "H", "I", "J", "K", "L", "M",
      "N", "O", "P", "Q", "R", "S", "T", "U", "V", "W", "X", "Y", "Z">>

Lower ==
    <<"a", "b", "c", "d", "e", "f", "g", "h", "i", "j", "k", "l", "m",
      "n", "o", "p", "q", "r", "s", "t", "u", "v", "w", "x", "y", "z">>

IsUpper(c) == \E k \in 1..26 : Upper[k] = c

IsLower(c) == \E k \in 1..26 : Lower[k] = c

IsLetter(c) == IsUpper(c) \/ IsLower(c)

ToLower(c) == IF IsUpper(c) THEN Lower[CHOOSE k \in 1..26 : Upper[k] = c] ELSE c

ToUpper(c) == IF IsLower(c) THEN Upper[CHOOSE k \in 1..26 : Lower[k] = c] ELSE c

LowerStr(s) == [k \in 1..Len(s) |-> ToLower(s[k])]

UpperStr(s) == [k \in 1..Len(s) |-> ToUpper(s[k])]

(* str.title(): a letter that follows a non-letter is upper case, every
   other letter lower case *)
Title(s) ==
    [k \in 1..Len(s) |->
        IF k = 1 \/ ~IsLetter(s[k - 1]) THEN ToUpper(s[k]) ELSE ToLower(s[k])]

IsWordChar(c) == IsLetter(c) \/ IsDigit(c) \/ c = "_"

UnitWords ==
    <<<<"f", "e", "e", "t">>, <<"f", "o", "o", "t">>, <<"f", "t">>,
      <<"i", "n", "c", "h", "e", "s">>, <<"i", "n", "c", "h">>,
      <<"i", "n">>>>

(* \b at the gap before position k of s *)
Boundary(s, k) ==
    LET before == k > 1 /\ IsWordChar(s[k - 1])
        after == k <= Len(s) /\ IsWordChar(s[k])
    IN  before # after

WordAt(s, k, w) ==
    /\ k + Len(w) - 1 <= Len(s)
    /\ SubSeq(s, k, k + Len(w) - 1) = w
    /\ Boundary(s, k)
    /\ Boundary(s, k + Len(w))

(* re.sub(r"\b(feet|foot|ft|inches|inch|in)\b", "", s), from position k *)
RECURSIVE RemoveUnitWords(_, _)
RemoveUnitWords(s, k) ==
    LET first(hits) ==
            IF hits = {} THEN <<s[k]>> \o RemoveUnitWords(s, k + 1)
            ELSE RemoveUnitWords(s,
                     k + Len(UnitWords[CHOOSE j \in hits :
                                           \A i \in hits : j <= i]))
    IN  IF k > Len(s) THEN <<>>
        ELSE first({j \in 1..Len(UnitWords) : WordAt(s, k, UnitWords[j])})

(* re.sub(r'["\']', " ", s) *)
QuotesToSpaces(s) ==
    [k \in 1..Len(s) |-> IF s[k] \in {"'", "\""} THEN " " ELSE s[k]]

RECURSIVE DigitRun(_)
DigitRun(s) ==
    IF s # <<>> /\ IsDigit(Head(s)) THEN 1 + DigitRun(Tail(s)) ELSE 0

(* re.findall(r"\d+\.?\d*", s) *)
RECURSIVE FindNumbers(_)
FindNumbers(s) ==
    LET take(n) == <<SubSeq(s, 1, n)>> \o FindNumbers(SubSeq(s, n + 1, Len(s)))
        fraction(n1, dot) ==
            take(n1 + (IF dot THEN 1 + DigitRun(SubSeq(s, n1 + 2, Len(s)))
                       ELSE 0))
        whole(n1) == fraction(n1, n1 < Len(s) /\ s[n1 + 1] = ".")
    IN  IF s = <<>> THEN <<>>
        ELSE IF ~IsDigit(Head(s)) THEN FindNumbers(Tail(s))
        ELSE whole(DigitRun(s))

(* x * d.ff for a float x in 1/Scale units, the product split so that it
   stays within 32 bits *)
TimesHundredths(x, d, ff) == x * d + (x * ff) \div 100

(* ------------------------- binary64 arithmetic ------------------------ *)
(* A float is [val, err]: val is the decimal number in 1/Scale units and
   err the distance of the binary64 value from it, in units of
   2^-56 / 3125 (so 2^-51 is 100000 units and 2^-54 is 12500). *)

RECURSIVE BitLen(_)
BitLen(n) == IF n = 0 THEN 0 ELSE 1 + BitLen(n \div 2)

RECURSIVE Pow2Mod(_, _)
Pow2Mod(k, m) == IF k = 0 THEN 1 % m ELSE (2 * Pow2Mod(k - 1, m)) % m

(* the low 16 bits of the 53-bit significands of 2.54 (0x1451EB851EB852,
   2.54 + 0.08 * 2^-51) and of 30.48 (0x1E7AE147AE147B,
   30.48 + 0.12 * 2^-48) *)
Low254 == 47186

Low3048 == 5243

(* float(text) of a decimal: the nearest binary64 value.  With x the
   binary exponent of val, val / ulp is val * 2^(47 - x) / 3125. *)
Double(val) ==
    LET nearest(x, r) ==
            IF r = 0 THEN 0
            ELSE IF r <= 1562 THEN -(r * (2 ^ (x + 4)))
            ELSE (3125 - r) * (2 ^ (x + 4))
        at(x) ==
            IF x < -4 THEN 0
            ELSE nearest(x, ((val % 3125) * Pow2Mod(47 - x, 3125)) % 3125)
    IN  [val |-> val,
         err |-> IF val <= 0 THEN 0
                 ELSE IF val >= Scale THEN at(BitLen(val \div Scale) - 1)
                 ELSE at(-BitLen((Scale - 1) \div val))]

(* x * c for a float x that is a whole number of eighths and the literal c
   = d.ff, whose significand ends in low and whose leading bit is 2^lead:
   the exact product of the significands, rounded to 53 bits, ties to even.
   An x with other fraction digits keeps err = 0: its product lies on no
   boundary of cm_to_feet. *)
FloatTimes(x, d, ff, low, lead) ==
    LET val == TimesHundredths(x, d, ff)
        N == x \div (Scale \div 8)
        k == BitLen(val \div (Scale \div 8)) - (lead + 1)
        rest(n) == ((N % (2 ^ n)) * (low % (2 ^ n))) % (2 ^ n)
        half == 2 ^ (k - 1)
        round(dropped) ==
            IF dropped < half THEN -dropped
            ELSE IF dropped > half THEN (2 ^ k) - dropped
            ELSE IF rest(k + 1) >= 2 ^ k THEN half
            ELSE -half
        unit == 3125 * (2 ^ (lead + 1))
        slope == IF lead = 1 THEN 1000 ELSE 12000
    IN  [val |-> val,
         err |-> IF x % (Scale \div 8) # 0 \/ N = 0 THEN 0
                 ELSE IF k <= 0 THEN N * slope
                 ELSE N * slope + round(rest(k)) * unit]

feet_to_cm_from_ten(feet_input) ==
    LET some(cm) == [none |-> FALSE, val |-> cm.val, err |-> cm.err]
        single(num) ==
            IF num >= 10 * Scale THEN some(Double(num))
            ELSE some(FloatTimes(num, 30, 48, Low3048, 4))
        pair(feet, inches) ==
            some(FloatTimes((feet * 12) + inches, 2, 54, Low254, 1))
        floats(count, number) ==
            IF count = 1 THEN single(number[1])
            ELSE IF count = 2 THEN pair(number[1], number[2])
            ELSE [none |-> TRUE, val |-> 0, err |-> 0]
        found(numbers) ==
            floats(Len(numbers),
                   [k \in 1..Len(numbers) |-> ParseFloat(numbers[k]).val])
        cleaned(text) == found(FindNumbers(QuotesToSpaces(text)))
    IN  cleaned(RemoveUnitWords(LowerStr(Strip(feet_input)), 1))

(* None is [none |-> TRUE]; a number is a float [val, err]. *)
feet_to_cm(feet_input) ==
    LET some(cm) == [none |-> FALSE, val |-> cm.val, err |-> cm.err]
        single(num) ==
            IF num > 10 * Scale THEN some(Double(num))
            ELSE some(FloatTimes(num, 30, 48, Low3048, 4))
        pair(feet, inches) ==
            some(FloatTimes((feet * 12) + inches, 2, 54, Low254, 1))
        floats(count, number) ==
            IF count = 1 THEN single(number[1])
            ELSE IF count = 2 THEN pair(number[1], number[2])
            ELSE [none |-> TRUE, val |-> 0, err |-> 0]
        found(numbers) ==
            floats(Len(numbers),
                   [k \in 1..Len(numbers) |-> ParseFloat(numbers[k]).val])
        cleaned(text) == found(FindNumbers(QuotesToSpaces(text)))
    IN  cleaned(RemoveUnitWords(LowerStr(Strip(feet_input)), 1))

QuotientSide_unrounded(cm, b2) ==
    LET e == cm.err - b2 * 4000
    IN  IF e > 0 THEN 1 ELSE IF e < 0 THEN -1 ELSE 0

(* total_inches = cm / 2.54 against a half inch b2 / 2 that cm.val is
   2.54 times: -1 below it, 0 on it, 1 above it.  The quotient leaves the
   half inch when it is more than half an ulp away from it. *)
QuotientSide(cm, b2) ==
    LET e == cm.err - b2 * 4000
        ulp == (2 ^ BitLen(b2)) * 15875
        power == 2 ^ (BitLen(b2) - 1) = b2
    IN  IF e > ulp THEN 1
        ELSE IF (IF power THEN -(2 * e) ELSE -e) > ulp THEN -1
        ELSE 0

cm_to_feet_carry(cm) ==
    LET foot == 3048 * (Scale \div 100)
        inch == 254 * (Scale \div 100)
        text(feet, inches) ==
            IF inches = 12
            THEN IntToStr(feet + 1) \o <<"'", "0", "\"">>
            ELSE IntToStr(feet) \o <<"'">> \o IntToStr(inches) \o <<"\"">>
        beside(side, feet, r2) ==
            IF side = 0 THEN text(feet, RoundDiv(r2, 2))
            ELSE IF side = 1 THEN text(feet, (r2 + 1) \div 2)
            ELSE IF r2 = 0 THEN text(feet - 1, 12)
            ELSE text(feet, r2 \div 2)
        on(b2) == beside(QuotientSide(cm, b2), b2 \div 24, b2 % 24)
    IN  IF cm.val > 0 /\ cm.val % (inch \div 2) = 0
        THEN on(cm.val \div (inch \div 2))
        ELSE text(cm.val \div foot, RoundDiv(cm.val % foot, inch))

(* cm is a float: feet = int(total_inches // 12) and inches =
   round(total_inches % 12) of the binary64 quotient, which differs from
   the exact one only where the exact one is a whole number of half inches *)
cm_to_feet(cm) ==
    LET foot == 3048 * (Scale \div 100)
        inch == 254 * (Scale \div 100)
        text(feet, inches) ==
            IntToStr(feet) \o <<"'">> \o IntToStr(inches) \o <<"\"">>
        beside(side, feet, r2) ==
            IF side = 0 THEN text(feet, RoundDiv(r2, 2))
            ELSE IF side = 1 THEN text(feet, (r2 + 1) \div 2)
            ELSE IF r2 = 0 THEN text(feet - 1, 12)
            ELSE text(feet, r2 \div 2)
        on(b2) == beside(QuotientSide(cm, b2), b2 \div 24, b2 % 24)
    IN  IF cm.val > 0 /\ cm.val % (inch \div 2) = 0
        THEN on(cm.val \div (inch \div 2))
        ELSE text(cm.val \div foot, RoundDiv(cm.val % foot, inch))

IsPrefix(pre, s) == Len(pre) <= Len(s) /\ SubSeq(s, 1, Len(pre)) = pre

validate_phone_any_eleven(phone) ==
    LET digits == SelectSeq(phone, IsDigit)
    IN  IF phone = <<>> THEN <<>>
        ELSE IF Len(digits) = 11 THEN <<"+", "8", "8">> \o digits
        ELSE IF Len(digits) = 13 /\ IsPrefix(<<"8", "8", "0">>, digits)
        THEN <<"+">> \o digits
        ELSE IF Len(digits) = 10 THEN <<"+", "8", "8", "0", "1">> \o digits
        ELSE phone

validate_phone(phone) ==
    LET digits == SelectSeq(phone, IsDigit)
    IN  IF phone = <<>> THEN <<>>
        ELSE IF Len(digits) = 11 /\ IsPrefix(<<"0", "1">>, digits)
        THEN <<"+", "8", "8">> \o digits
        ELSE IF Len(digits) = 13 /\ IsPrefix(<<"8", "8", "0">>, digits)
        THEN <<"+">> \o digits
        ELSE IF Len(digits) = 10 THEN <<"+", "8", "8", "0", "1">> \o digits
        ELSE phone

(* ------------------------------ records ------------------------------- *)

columns ==
    <<"Name", "Age", "Gender", "Phone", "Blood Pressure", "Blood Group",
      "Blood Sugar", "Weight", "Height (cm)", "Height (ft)", "BMI",
      "Health Comments", "Date Added">>

(* dict.get(key, "") *)
Get(p, key) == IF key \in DOMAIN p THEN p[key] ELSE <<>>

Put(p, key, value) == (key :> value) @@ p

(* datetime.now().strftime(...): the clock is not modelled *)
Now == <<"(now)">>

Row(name, age, gender, phone, bp, group, sugar, weight, cm, ft, bmi, comments) ==
    [c \in {columns[k] : k \in 1..Len(columns)} |->
        CASE c = "Name" -> name
          [] c = "Age" -> age
          [] c = "Gender" -> gender
          [] c = "Phone" -> phone
          [] c = "Blood Pressure" -> bp
          [] c = "Blood Group" -> group
          [] c = "Blood Sugar" -> sugar
          [] c = "Weight" -> weight
          [] c = "Height (cm)" -> cm
          [] c = "Height (ft)" -> ft
          [] c = "BMI" -> bmi
          [] c = "Health Comments" -> comments
          [] OTHER -> Now]

(* Rows an existing workbook may hold: written by an earlier session or
   edited by hand (a stale advisory, an age that is no number or out of
   range, a blank name). *)
SheetRows ==
    { Row(<<"A", "l", "i">>, <<"4", "5">>, <<"M", "a", "l", "e">>,
          <<>>, <<"1", "9", "0", "/", "1", "0", "0">>, <<"O", "+">>,
          <<"6">>, <<>>, <<>>,
          <<>>, <<>>,
          BP_NORMAL),
      Row(<<"C", "h", "a", "y", "a">>, <<"a", "b", "c">>, <<"F", "e", "m", "a", "l", "e">>,
          <<"+", "8", "8", "0", "1", "7", "1", "2", "3", "4", "5", "6", "7", "8">>, <<"1", "9", "0", "/", "1", "0", "0">>, <<>>,
          <<"9">>, <<"9", "5">>, <<"1", "7", "0">>,
          <<"5", "'", "7", "\"">>, <<"3", "2", ".", "9">>,
          <<>>),
      Row(<<"B", "i", "n", "a">>, <<"1", "5", "0">>, <<"F", "e", "m", "a", "l", "e">>,
          <<>>, <<"1", "5", "0", "/", "8", "5">>, <<"A", "-">>,
          <<"9">>, <<"9", "5">>, <<"1", "7", "0">>,
          <<"5", "'", "7", "\"">>, <<"3", "2", ".", "9">>,
          Join(<<BP_HIGH, SUGAR_HIGH, BMI_OBESE, AGE_SENIOR>>)),
      Row(<<"D", "i", "p", "u">>, <<"8">>, <<"M", "a", "l", "e">>,
          <<>>, <<"1", "3", "5", "/", "8", "5">>, <<>>,
          <<"6">>, <<"6", "3", ".", "6">>, <<"1", "7", "0">>,
          <<"5", "'", "7", "\"">>, <<"2", "2", ".", "0">>,
          Join(<<BP_SLIGHTLY_HIGH, SUGAR_BORDERLINE, BMI_HEALTHY, AGE_CHILD>>)),
      Row(<<" ", " ">>, <<"3", "0">>, <<"M", "a", "l", "e">>,
          <<>>, <<"1", "9", "0", "/", "1", "0", "0">>, <<>>,
          <<>>, <<>>, <<>>,
          <<>>, <<>>,
          <<>>) }

RECURSIVE SeqsUpTo(_, _)
SeqsUpTo(n, S) ==
    IF n = 0 THEN {<<>>}
    ELSE LET shorter == SeqsUpTo(n - 1, S)
         IN  shorter \cup {Append(q, x) : q \in {t \in shorter : Len(t) = n - 1}, x \in S}

(* the rows loop of load_existing_data: every cell of the rows is a text,
   "" standing for an empty cell *)
load_existing_data(rows) ==
    LET has_data(r) == \E c \in DOMAIN r : r[c] # <<>>
    IN  SelectSeq(rows, LAMBDA r : has_data(r) /\ Strip(Get(r, "Name")) # <<>>)

(* --------------------------- alert builder ---------------------------- *)

(* priority = "HIGH" *)
Raise(priority) == "HIGH"

Elevate_unguarded(priority) == "MEDIUM"

(* if priority != "HIGH": priority = "MEDIUM" *)
Elevate(priority) == IF priority # "HIGH" THEN "MEDIUM" ELSE priority

(* The three keyword checks of the loop body of
   _create_health_alerts_sheet on the comments of one patient: the alerts
   and the priority they leave. *)
CheckComments(bp_comment, sugar_comment, bmi_comment) ==
    LET check(s, comment, high, medium) ==
            IF high
            THEN [alerts |-> Append(s.alerts, comment),
                  priority |-> Raise(s.priority)]
            ELSE IF medium
            THEN [alerts |-> Append(s.alerts, comment),
                  priority |-> Elevate(s.priority)]
            ELSE s
        s0 == [alerts |-> <<>>, priority |-> "LOW"]
        s1 == check(s0, bp_comment,
                    Contains(<<"CRISIS">>, bp_comment)
                        \/ Contains(<<"STAGE", "2">>, bp_comment),
                    Contains(<<"STAGE", "1">>, bp_comment)
                        \/ Contains(<<"LOW", "BP">>, bp_comment))
        s2 == check(s1, sugar_comment,
                    Contains(<<"VERY", "HIGH">>, sugar_comment)
                        \/ Contains(<<"LOW", "SUGAR">>, sugar_comment),
                    Contains(<<"HIGH", "SUGAR">>, sugar_comment))
        s3 == check(s2, bmi_comment,
                    Contains(<<"SEVERELY">>, bmi_comment)
                        \/ Contains(<<"MORBIDLY">>, bmi_comment),
                    Contains(<<"OBESE">>, bmi_comment))
    IN  s3

CheckPatient_stored(p) ==
    CheckComments(Get(p, "Health Comments"), Get(p, "Health Comments"),
                  Get(p, "Health Comments"))

(* One pass of the loop body of _create_health_alerts_sheet up to the test
   `if alerts`: the three comments are computed anew from the cells. *)
CheckPatient(p) ==
    CheckComments(analyze_blood_pressure(Get(p, "Blood Pressure")),
                  analyze_blood_sugar(Get(p, "Blood Sugar")),
                  analyze_bmi_health(Get(p, "BMI")))

(* The dictionary built for a patient with alerts.  `ref` is the position
   of the patient in self.data at this pass of the loop; the source keeps
   no such field, the loop position is what it stands for. *)
patient_alert(p, ref, chk) ==
    [name |-> p["Name"], age |-> p["Age"], gender |-> p["Gender"],
     phone |-> Get(p, "Phone"), alerts |-> chk.alerts,
     priority |-> chk.priority, ref |-> ref]

AddAlert_front(list, entry) == <<entry>> \o list

(* high_priority.append(patient_alert) *)
AddAlert(list, entry) == Append(list, entry)

(* for patient in self.data: ... of _create_health_alerts_sheet, from
   position k on *)
RECURSIVE AlertLoop(_, _, _)
AlertLoop(d, k, lists) ==
    LET file(chk, entry) ==
            IF chk.alerts = <<>> THEN lists
            ELSE IF chk.priority = "HIGH"
            THEN [lists EXCEPT !.high = AddAlert(lists.high, entry)]
            ELSE [lists EXCEPT !.medium = AddAlert(lists.medium, entry)]
        body(chk) == file(chk, patient_alert(d[k], k, chk))
    IN  IF k > Len(d) THEN lists
        ELSE AlertLoop(d, k + 1, body(CheckPatient(d[k])))

_create_health_alerts_sheet(d) == AlertLoop(d, 1, [high |-> <<>>, medium |-> <<>>])

(* patient["Name"], patient["Age"], patient["Gender"] of a patient with
   alerts raise KeyError when the workbook had no such column *)
AlertsRaise(d) ==
    \E k \in 1..Len(d) :
        /\ CheckPatient(d[k]).alerts # <<>>
        /\ ~({"Name", "Age", "Gender"} \subseteq DOMAIN d[k])

(* ------------------------------ summary ------------------------------- *)

RECURSIVE Sum(_)
Sum(s) == IF s = <<>> THEN 0 ELSE Head(s) + Sum(Tail(s))

Smallest(s) == CHOOSE x \in {s[k] : k \in 1..Len(s)} : \A k \in 1..Len(s) : x <= s[k]

Largest(s) == CHOOSE x \in {s[k] : k \in 1..Len(s)} : \A k \in 1..Len(s) : x >= s[k]

(* sorted(s)[n], counting from 0 *)
SortedAt(s, n) ==
    CHOOSE x \in {s[k] : k \in 1..Len(s)} :
        /\ Cardinality({k \in 1..Len(s) : s[k] < x}) <= n
        /\ Cardinality({k \in 1..Len(s) : s[k] <= x}) > n

(* count / total * 100 as the format .1f prints it, in tenths of a percent;
   a total of 0 is a division by zero *)
Percent(count, total) == RoundDiv(count * 1000, total)

IsMale(p) == LowerStr(Get(p, "Gender")) = <<"m", "a", "l", "e">>

gender_statistics(d) ==
    LET counted(male_count, female_count) ==
            [male_count |-> male_count,
             male_percentage |-> Percent(male_count, Len(d)),
             female_count |-> female_count,
             female_percentage |-> Percent(female_count, Len(d))]
        males(male_count) == counted(male_count, Len(d) - male_count)
    IN  males((Cardinality({k \in 1..Len(d) : IsMale(d[k])})))

(* str.isdigit() and int() of the ages that pass it *)
HasDigitAge(p) == Get(p, "Age") # <<>> /\ AllDigits(Get(p, "Age"))

age_statistics(d) ==
    LET age_of(p) == DigitsVal(Get(p, "Age"))
        stats(ages) ==
            IF ages = <<>> THEN [count |-> 0]
            ELSE [count |-> Len(ages),
                  min |-> Smallest(ages), max |-> Largest(ages),
                  average |-> RoundDiv(Sum(ages) * 10, Len(ages)),
                  median |-> SortedAt(ages, Len(ages) \div 2)]
        listed(with_age) == stats([k \in 1..Len(with_age) |-> age_of(with_age[k])])
    IN  listed(SelectSeq(d, HasDigitAge))

BloodGroupOf(p) == Strip(Get(p, "Blood Group"))

HasBloodGroup(p) == BloodGroupOf(p) # <<>>

blood_group_distribution(d) ==
    LET count(bg) == Cardinality({k \in 1..Len(d) : BloodGroupOf(d[k]) = bg})
        table(blood_groups, tested_for_blood_group) ==
            [tested |-> tested_for_blood_group,
             count |-> [bg \in blood_groups |-> count(bg)],
             percentage |-> [bg \in blood_groups |->
                                Percent(count(bg), tested_for_blood_group)],
             not_tested |-> Len(d) - tested_for_blood_group]
    IN  table({BloodGroupOf(d[k]) : k \in 1..Len(d)} \ {<<>>},
              (Cardinality({k \in 1..Len(d) : HasBloodGroup(d[k])})))

bmi_category_names ==
    {<<"Severely", "Underweight">>, <<"Underweight">>, <<"Normal">>,
     <<"Overweight">>, <<"Obese", "Class", "I">>, <<"Obese", "Class", "II">>,
     <<"Obese", "Class", "III">>}

HasBmi(p) == Get(p, "BMI") # <<>>

(* the BMI loop: a record counts when its BMI cell is not empty *)
bmi_statistics(d) ==
    LET count(measured, cat) ==
            Cardinality({k \in 1..Len(measured) :
                            categorize_bmi(Get(measured[k], "BMI")) = cat})
        tenths(v) == RoundDiv(v, Scale \div 10)
        table(measured, bmi_values) ==
            IF measured = <<>> THEN [measured |-> 0]
            ELSE [measured |-> Len(measured),
                  count |-> [cat \in bmi_category_names |->
                                count(measured, cat)],
                  percentage |->
                      [cat \in {c \in bmi_category_names :
                                   count(measured, c) > 0} |->
                          Percent(count(measured, cat), Len(measured))],
                  average |-> RoundDiv(Sum(bmi_values),
                                       Len(measured) * (Scale \div 10)),
                  min |-> tenths(Smallest(bmi_values)),
                  max |-> tenths(Largest(bmi_values))]
        values(measured) ==
            table(measured,
                  [k \in 1..Len(measured) |->
                      ParseFloat(Get(measured[k], "BMI")).val])
    IN  values(SelectSeq(d, HasBmi))

HasSugar(p) == Get(p, "Blood Sugar") # <<>>

HasBp(p) == Get(p, "Blood Pressure") # <<>>

HasPhone(p) == Get(p, "Phone") # <<>>

screening_coverage_all(d) ==
    LET test(count) ==
            [completed |-> count, percentage |-> Percent(count, Len(d))]
    IN  [blood_group |-> test(Len(d)),
         sugar |-> test(Len(d)),
         bp |-> test(Len(d)),
         bmi |-> test(Len(d)),
         phone |-> test(Len(d))]

screening_coverage(d) ==
    LET test(count) ==
            [completed |-> count, percentage |-> Percent(count, Len(d))]
    IN  [blood_group |-> test((Cardinality({k \in 1..Len(d) : HasBloodGroup(d[k])}))),
         sugar |-> test((Cardinality({k \in 1..Len(d) : HasSugar(d[k])}))),
         bp |-> test((Cardinality({k \in 1..Len(d) : HasBp(d[k])}))),
         bmi |-> test((Cardinality({k \in 1..Len(d) : HasBmi(d[k])}))),
         phone |-> test((Cardinality({k \in 1..Len(d) : HasPhone(d[k])})))]

IsHighBp(p) ==
    Contains(<<"HIGH", "BP">>, analyze_blood_pressure(Get(p, "Blood Pressure")))

IsHighSugar(p) ==
    Contains(<<"HIGH", "SUGAR">>, analyze_blood_sugar(Get(p, "Blood Sugar")))

IsObese(p) == Contains(<<"OBESE">>, analyze_bmi_health(Get(p, "BMI")))

IsCrisis(p) ==
    Contains(<<"CRISIS">>, analyze_blood_pressure(Get(p, "Blood Pressure")))

alert_summary(d) ==
    LET total(high_bp, high_sugar, obese) ==
            [high_bp |-> high_bp, high_sugar |-> high_sugar, obese |-> obese,
             follow_up |-> high_bp + high_sugar + obese]
    IN  total((Cardinality({k \in 1..Len(d) : IsHighBp(d[k])})), (Cardinality({k \in 1..Len(d) : IsHighSugar(d[k])})),
              (Cardinality({k \in 1..Len(d) : IsObese(d[k])})))

(* the statistics of the Summary sheet; print_summary_report repeats the
   same statements and adds the count of hypertensive crises *)
summary_statistics(d) ==
    [total |-> Len(d),
     gender |-> gender_statistics(d),
     age |-> age_statistics(d),
     blood_group |-> blood_group_distribution(d),
     bmi |-> bmi_statistics(d),
     coverage |-> screening_coverage(d),
     alerts |-> alert_summary(d)]

(* _create_summary_sheet raises on p["Age"] of a row without Age and on
   float(p["BMI"]) of a BMI cell that is no number *)
SummaryRaises(d) ==
    \E k \in 1..Len(d) :
        \/ "Age" \notin DOMAIN d[k]
        \/ Get(d[k], "BMI") # <<>> /\ ~ParseFloat(Get(d[k], "BMI")).ok

SaveFails(d) == SummaryRaises(d) \/ AlertsRaise(d)

(* The workbook save_to_excel leaves on disk, [saved, wb_rows, high,
   medium], and the note it prints. With no data it returns at once; an
   exception of a sheet builder is caught before wb.save, and the file stays
   as it was. *)
save_to_excel(d, old) ==
    LET written(lists) ==
            [saved |-> TRUE,
             wb_rows |-> [k \in 1..Len(d) |->
                             [c \in {columns[j] : j \in 1..Len(columns)} |->
                                 Get(d[k], c)]],
             high |-> lists.high, medium |-> lists.medium, note |-> "done"]
    IN  IF d = <<>> THEN [old EXCEPT !.note = "no data"]
        ELSE IF SaveFails(d) THEN [old EXCEPT !.note = "error"]
        ELSE written(_create_health_alerts_sheet(d))

(* the Summary sheet of the workbook on disk: _create_summary_sheet runs
   in the save that wrote the rows, over the same records *)
summary_sheet == IF saved THEN summary_statistics(wb_rows) ELSE <<>>

(* what the last menu operation printed: the operation, how it ended, the
   positions of the patients it listed and the statistics it showed *)
Printed(op, note, shown, statistics) ==
    [op |-> op, note |-> note, shown |-> shown, statistics |-> statistics]

Blank == Printed("none", "done", <<>>, <<>>)

Workbook ==
    [saved |-> saved, wb_rows |-> wb_rows, high |-> high_priority,
     medium |-> medium_priority, note |-> "done"]

SetWorkbook(w) ==
    /\ saved' = w.saved
    /\ wb_rows' = w.wb_rows
    /\ high_priority' = w.high
    /\ medium_priority' = w.medium
    /\ out' = Printed("save", w.note, <<>>, <<>>)

(* ------------------------- lines typed at prompts --------------------- *)

NameLines ==
    {<<>>,
     <<" ", " ", " ">>,
     <<" ", "r", "a", "h", "i", "m", " ", "k", "h", "a", "n">>}

AgeLines ==
    {<<"a", "b", "c">>,
     <<"-", "1">>,
     <<"1", "2", "1">>,
     <<" ", "1", "2", "0">>}

GenderLines == {<<"x">>, <<"m">>}

PhoneLines == {<<"0", "1", "7", "1", "2", "-", "3", "4", "5", "6", "7", "8">>}

BpLines ==
    {<<>>,
     <<"1", "2", "0", "8", "0">>,
     <<"a", "/", "b">>,
     <<"1", "2", "0", "/", "8", "0", "/", "1">>,
     <<"3", "0", "0", "/", "8", "0">>,
     <<"8", "0", "/", "9", "0">>,
     <<"1", "9", "0", " ", "/", " ", "1", "0", "0">>}

BloodGroupLines == {<<"o">>, <<"o", "+">>}

SugarLines ==
    {<<>>,
     <<"a", "b", "c">>,
     <<"n", "a", "n">>,
     <<"0", ".", "9", "6">>,
     <<"4", "4", ".", "5">>,
     <<"6">>}

WeightLines ==
    {<<>>,
     <<"k", "g">>,
     <<"0", ".", "9">>,
     <<"5", "0", "1">>,
     <<"1">>}

HeightLines ==
    {<<>>,
     <<"a", "b", "c">>,
     <<"3", "0", "1">>,
     <<"3", "0", "0">>,
     <<"5", "'", "7", "\"">>}

(* ----------------------------- add_patient ---------------------------- *)

InRange_open(lo, v, hi) == v <= hi

(* lo <= v <= hi *)
InRange(lo, v, hi) == lo <= v /\ v <= hi

(* the tail of add_patient from "# Calculate BMI" to self.data.append: the
   finished record of a patient whose prompts are all answered *)
age_comment_child_first(age_val) ==
    IF age_val >= 60 THEN <<AGE_SENIOR>>
    ELSE IF age_val <= 12 THEN <<AGE_CHILD>>
    ELSE IF age_val <= 2 THEN <<AGE_INFANT>>
    ELSE IF age_val <= 19 THEN <<AGE_ADOLESCENT>>
    ELSE <<>>

(* the age bands: the advisories appended for age_val, none or one *)
age_comment(age_val) ==
    IF age_val >= 60 THEN <<AGE_SENIOR>>
    ELSE IF age_val <= 2 THEN <<AGE_INFANT>>
    ELSE IF age_val <= 12 THEN <<AGE_CHILD>>
    ELSE IF age_val <= 19 THEN <<AGE_ADOLESCENT>>
    ELSE <<>>

FinishPatient(p) ==
    LET bmi_text(bmi) ==
            IF bmi.empty THEN <<>>
            ELSE IF bmi.nan THEN <<"n", "a", "n">>
            ELSE IF bmi.val # 0 THEN Fmt1(bmi.val)
            ELSE <<>>
        add(health_comments, comment) ==
            IF comment # <<>> THEN Append(health_comments, comment)
            ELSE health_comments
        comments(bmi_cell) ==
            add(add(add(<<>>, analyze_blood_pressure(p["Blood Pressure"])),
                    analyze_blood_sugar(p["Blood Sugar"])),
                analyze_bmi_health(bmi_cell))
                \o age_comment(ParseInt(p["Age"]).val)
        finish(bmi_cell) ==
            Put(Put(Put(p, "BMI", bmi_cell),
                    "Health Comments", Join(comments(bmi_cell))),
                "Date Added", Now)
    IN  finish(IF p["Weight"] # <<>> /\ p["Height (cm)"] # <<>>
               THEN bmi_text(calculate_bmi(p["Weight"], p["Height (cm)"]))
               ELSE <<>>)

AppendPatient_front(d, p) == <<p>> \o d

(* self.data.append(patient) *)
AppendPatient(d, p) == Append(d, p)

(* 1. Add New Patient, up to the name prompt *)
AddName_unchecked(line) ==
    /\ pc = "menu"
    /\ added < MaxAdded
    /\ inp' = line
    /\ patient' = Put(<<>>, "Name", Title(Strip(line)))
    /\ pc' = "age"
    /\ out' = Blank
    /\ UNCHANGED <<data, added, saved, wb_rows, high_priority,
                   medium_priority, arg, res>>

AddName(line) ==
    /\ pc = "menu"
    /\ added < MaxAdded
    /\ inp' = line
    /\ LET name == Title(Strip(line))
       IN  IF name = <<>>
           THEN UNCHANGED <<pc, patient>>
           ELSE /\ patient' = Put(<<>>, "Name", name)
                /\ pc' = "age"
    /\ out' = Blank
    /\ UNCHANGED <<data, added, saved, wb_rows, high_priority,
                   medium_priority, arg, res>>

Prompt(at, line, accepted, p, next) ==
    /\ pc = at
    /\ inp' = line
    /\ IF accepted
       THEN patient' = p /\ pc' = next
       ELSE UNCHANGED <<pc, patient>>
    /\ UNCHANGED <<data, added, saved, wb_rows, high_priority,
                   medium_priority, out, arg, res>>

AddAge(line) ==
    LET answer(age) ==
            Prompt("age", line, age.ok /\ InRange(0, age.val, 120),
                   Put(patient, "Age", IntToStr(age.val)), "gender")
    IN  answer(ParseInt(Strip(line)))

AddGender(line) ==
    LET gender == UpperStr(Strip(line))
    IN  Prompt("gender", line,
               gender \in {<<"M">>, <<"F">>, <<"M", "A", "L", "E">>, <<"F", "E", "M", "A", "L", "E">>},
               Put(patient, "Gender",
                   IF gender \in {<<"M">>, <<"M", "A", "L", "E">>} THEN <<"M", "a", "l", "e">> ELSE <<"F", "e", "m", "a", "l", "e">>),
               "phone")

AddPhone(line) ==
    Prompt("phone", line, TRUE,
           Put(patient, "Phone", validate_phone(Strip(line))), "bp")

AddBloodPressure(line) ==
    LET answer(bp_input, sys, dia) ==
            Prompt("bp", line,
                   \/ bp_input = <<>>
                   \/ /\ Count(bp_input, "/") = 1
                      /\ sys.ok /\ dia.ok
                      /\ InRange(50, sys.val, 250)
                      /\ InRange(30, dia.val, 150)
                      /\ sys.val > dia.val,
                   Put(patient, "Blood Pressure",
                       IF bp_input = <<>> THEN <<>>
                       ELSE IntToStr(sys.val) \o <<"/">> \o IntToStr(dia.val)),
                   "blood_group")
        split(bp_input, cut) ==
            answer(bp_input, ParseInt(SubSeq(bp_input, 1, cut - 1)),
                   ParseInt(SubSeq(bp_input, cut + 1, Len(bp_input))))
        stripped(bp_input) == split(bp_input, Index(bp_input, "/"))
    IN  stripped(Strip(line))

valid_groups ==
    {<<"A", "+">>, <<"A", "-">>, <<"B", "+">>, <<"B", "-">>, <<"A", "B", "+">>, <<"A", "B", "-">>, <<"O", "+">>, <<"O", "-">>}

AddBloodGroup(line) ==
    LET blood_group == UpperStr(Strip(line))
    IN  Prompt("blood_group", line,
               blood_group \in valid_groups \/ blood_group = <<>>,
               Put(patient, "Blood Group", blood_group), "sugar")

AddBloodSugar(line) ==
    LET answer(sugar_input, sugar) ==
            Prompt("sugar", line,
                   \/ sugar_input = <<>>
                   \/ /\ sugar.ok /\ ~sugar.nan
                      /\ InRange(Dec(1, 0), sugar.val, Dec(44, 4)),
                   Put(patient, "Blood Sugar",
                       IF sugar_input = <<>> THEN <<>> ELSE FmtNum(sugar.val)),
                   "weight")
        stripped(sugar_input) == answer(sugar_input, ParseFloat(sugar_input))
    IN  stripped(Strip(line))

AddWeight(line) ==
    LET answer(weight_input, weight) ==
            Prompt("weight", line,
                   \/ weight_input = <<>>
                   \/ /\ weight.ok /\ ~weight.nan
                      /\ InRange(1 * Scale, weight.val, 500 * Scale),
                   Put(patient, "Weight",
                       IF weight_input = <<>> THEN <<>> ELSE FmtNum(weight.val)),
                   "height")
        stripped(weight_input) == answer(weight_input, ParseFloat(weight_input))
    IN  stripped(Strip(line))

(* The height prompt; an accepted answer runs add_patient to its end: BMI,
   advisories, self.data.append(patient) and the auto-save. *)
AddHeight(line) ==
    /\ pc = "height"
    /\ inp' = line
    /\ \E height_input \in {Strip(line)} :
       \E height_cm \in {feet_to_cm(height_input)},
          height \in {ParseFloat(height_input)} :
       \E by_feet \in {/\ ~height_cm.none /\ height_cm.val # 0
                       /\ InRange(30 * Scale, height_cm.val, 300 * Scale)},
          by_cm \in {/\ height.ok /\ ~height.nan
                     /\ InRange(30 * Scale, height.val, 300 * Scale)} :
       \E cm \in {IF by_feet THEN [val |-> height_cm.val, err |-> height_cm.err]
                  ELSE Double(height.val)} :
       \E p \in {IF height_input = <<>>
                 THEN Put(Put(patient, "Height (cm)", <<>>),
                          "Height (ft)", <<>>)
                 ELSE Put(Put(patient, "Height (cm)", FmtNum(cm.val)),
                          "Height (ft)", cm_to_feet(cm))} :
             IF height_input = <<>> \/ by_feet \/ by_cm
             THEN /\ data' = AppendPatient(data, FinishPatient(p))
                  /\ \E w \in {save_to_excel(data', Workbook)} : SetWorkbook(w)
                  /\ added' = added + 1
                  /\ patient' = <<>>
                  /\ pc' = "menu"
             ELSE UNCHANGED <<data, added, saved, wb_rows,
                              high_priority, medium_priority, out, pc,
                              patient>>
    /\ UNCHANGED <<arg, res>>

(* ------------------------------- menu --------------------------------- *)

(* 4. Save to Excel *)
MenuSave ==
    /\ pc = "menu"
    /\ \E w \in {save_to_excel(data, Workbook)} : SetWorkbook(w)
    /\ UNCHANGED <<data, pc, patient, inp, added, arg, res>>

(* 6. Exit: saves, then leaves the loop *)
MenuExit ==
    /\ pc = "menu"
    /\ \E w \in {save_to_excel(data, Workbook)} : SetWorkbook(w)
    /\ pc' = "exit"
    /\ UNCHANGED <<data, patient, inp, added, arg, res>>

(* 2. View All Patients: the positions listed. patient['Name'],
   patient['Age'], patient['Gender'] and, next to a height,
   patient['Height (ft)'] raise KeyError when the workbook had no such
   column; nothing in run catches it *)
DisplayRaises(p) ==
    \/ ~({"Name", "Age", "Gender"} \subseteq DOMAIN p)
    \/ Get(p, "Height (cm)") # <<>> /\ "Height (ft)" \notin DOMAIN p

Positions(d) == [k \in 1..Len(d) |-> k]

Listing(op, d, found) ==
    IF \E k \in 1..Len(found) : DisplayRaises(d[found[k]])
    THEN Printed(op, "error", <<>>, <<>>)
    ELSE Printed(op, IF found = <<>> THEN "none found" ELSE "done", found,
                 <<>>)

Show(printed) ==
    /\ out' = printed
    /\ pc' = IF printed.note = "error" THEN "crashed" ELSE pc
    /\ UNCHANGED <<data, patient, inp, added, saved, wb_rows,
                   high_priority, medium_priority, arg, res>>

MenuView ==
    /\ pc = "menu"
    /\ Show(IF data = <<>> THEN Printed("view", "no data", <<>>, <<>>)
            ELSE Listing("view", data, Positions(data)))

(* 3. Search Patients *)
SearchNoData ==
    /\ pc = "menu"
    /\ data = <<>>
    /\ Show(Printed("search", "no data", <<>>, <<>>))

NameSearchLines == {<<"a", "l", "i">>, <<" ", "B", "I", " ">>}

_search_by_name(d, line) ==
    LET search_name == LowerStr(Strip(line))
        found(k) == Contains(search_name, LowerStr(Get(d[k], "Name")))
    IN  Listing("search by name", d, SelectSeq(Positions(d), found))

SearchByName(line) ==
    /\ pc = "menu"
    /\ data # <<>>
    /\ Show(_search_by_name(data, line))

BloodGroupSearchLines == {<<"o", "+">>, <<"a", "b", "-">>}

_search_by_blood_group(d, line) ==
    LET blood_group == UpperStr(Strip(line))
        found(k) == UpperStr(Get(d[k], "Blood Group")) = blood_group
    IN  Listing("search by blood group", d,
                SelectSeq(Positions(d), found))

SearchByBloodGroup(line) ==
    /\ pc = "menu"
    /\ data # <<>>
    /\ Show(_search_by_blood_group(data, line))

AgeSearchLines == {<<"0">>, <<"6", "0">>, <<"x">>}

(* int(patient.get("Age", 0)): 0 without the column, ValueError on a cell
   that is no number; the handler catches ValueError *)
_search_by_age(d, min_line, max_line) ==
    LET age(p) == IF "Age" \in DOMAIN p THEN ParseInt(p["Age"])
                  ELSE [ok |-> TRUE, val |-> 0]
        found(min_age, max_age) ==
            SelectSeq(Positions(d),
                      LAMBDA k : /\ min_age <= age(d[k]).val
                                 /\ age(d[k]).val <= max_age)
        range(min_age, max_age) ==
            IF ~min_age.ok \/ ~max_age.ok
                   \/ \E k \in 1..Len(d) : ~age(d[k]).ok
            THEN Printed("search by age", "invalid", <<>>, <<>>)
            ELSE Listing("search by age", d, found(min_age.val, max_age.val))
    IN  range(ParseInt(min_line), ParseInt(max_line))

SearchByAge(min_line, max_line) ==
    /\ pc = "menu"
    /\ data # <<>>
    /\ Show(_search_by_age(data, min_line, max_line))

(* str.lower() of the words the conditions listed at the prompt are made
   of; no other word of an advisory becomes one of them *)
LowerWord(w) ==
    CASE w = "HIGH" -> "high"
      [] w = "LOW" -> "low"
      [] w = "BP" -> "bp"
      [] w = "SUGAR" -> "sugar"
      [] w = "UNDERWEIGHT" -> "underweight"
      [] w = "OVERWEIGHT" -> "overweight"
      [] w = "OBESE" -> "obese"
      [] OTHER -> w

LowerWords(text) == [k \in 1..Len(text) |-> LowerWord(text[k])]

(* conditions as their words *)
ConditionLines == {<<"high", "bp">>, <<"OBESE">>}

_search_by_health(d, line) ==
    LET condition == LowerWords(line)
        found(k) ==
            Contains(condition, LowerWords(Get(d[k], "Health Comments")))
    IN  Listing("search by health", d, SelectSeq(Positions(d), found))

SearchByHealth(line) ==
    /\ pc = "menu"
    /\ data # <<>>
    /\ Show(_search_by_health(data, line))

SearchInvalidChoice ==
    /\ pc = "menu"
    /\ data # <<>>
    /\ Show(Printed("search", "invalid", <<>>, <<>>))

print_summary_report_unguarded(d) ==
    IF d = <<>> \/ SummaryRaises(d)
    THEN Printed("report", "error", <<>>, <<>>)
    ELSE Printed("report", "done", <<>>,
                 [summary |-> summary_statistics(d),
                  crisis_bp |-> (Cardinality({k \in 1..Len(d) : IsCrisis(d[k])}))])

print_summary_report_once(d) ==
    IF out.op = "report" THEN Printed("report", "done", <<>>, <<>>)
    ELSE IF d = <<>> THEN Printed("report", "no data", <<>>, <<>>)
    ELSE IF SummaryRaises(d) THEN Printed("report", "error", <<>>, <<>>)
    ELSE Printed("report", "done", <<>>,
                 [summary |-> summary_statistics(d),
                  crisis_bp |-> (Cardinality({k \in 1..Len(d) : IsCrisis(d[k])}))])

(* 5. Summary Report: nothing in run catches what the statistics raise *)
print_summary_report(d) ==
    IF d = <<>> THEN Printed("report", "no data", <<>>, <<>>)
    ELSE IF SummaryRaises(d) THEN Printed("report", "error", <<>>, <<>>)
    ELSE Printed("report", "done", <<>>,
                 [summary |-> summary_statistics(d),
                  crisis_bp |-> (Cardinality({k \in 1..Len(d) : IsCrisis(d[k])}))])

(* history kept for the claims: the last two collections a report was asked
   for (arg) and what each printed (res) *)
LastTwo(s, x) == IF Len(s) < 2 THEN Append(s, x) ELSE <<s[2], x>>

MenuReport ==
    /\ pc = "menu"
    /\ \E printed \in {print_summary_report(data)} :
           /\ out' = printed
           /\ pc' = IF printed.note = "error" THEN "crashed" ELSE pc
           /\ arg' = LastTwo(arg, data)
           /\ res' = LastTwo(res, printed)
    /\ UNCHANGED <<data, patient, inp, added, saved, wb_rows,
                   high_priority, medium_priority>>

(* any other choice *)
MenuInvalid ==
    /\ pc = "menu"
    /\ Show(Printed("menu", "invalid", <<>>, <<>>))

(* __init__: self.data = [] and load_existing_data over the rows of the
   workbook, if there is one *)
Init ==
    /\ \E rows \in SeqsUpTo(MaxLoaded, SheetRows) :
           data = load_existing_data(rows)
    /\ pc = "menu"
    /\ patient = <<>>
    /\ inp = <<>>
    /\ added = 0
    /\ saved = FALSE
    /\ wb_rows = <<>>
    /\ high_priority = <<>>
    /\ medium_priority = <<>>
    /\ out = Blank
    /\ arg = <<>>
    /\ res = <<>>

Next ==
    \/ \E line \in NameLines : AddName(line)
    \/ \E line \in AgeLines : AddAge(line)
    \/ \E line \in GenderLines : AddGender(line)
    \/ \E line \in PhoneLines : AddPhone(line)
    \/ \E line \in BpLines : AddBloodPressure(line)
    \/ \E line \in BloodGroupLines : AddBloodGroup(line)
    \/ \E line \in SugarLines : AddBloodSugar(line)
    \/ \E line \in WeightLines : AddWeight(line)
    \/ \E line \in HeightLines : AddHeight(line)
    \/ MenuSave
    \/ MenuExit

Spec == Init /\ [][Next]_vars

(* ------------------------- the whole menu loop ------------------------ *)

(* a workbook made by hand with the columns Name, Age and Gender only *)
ShortSheetRows ==
    { [c \in {"Name", "Age", "Gender"} |->
          CASE c = "Name" -> <<"E", "v", "a">>
            [] c = "Age" -> <<"3", "0">>
            [] OTHER -> <<"F", "e", "m", "a", "l", "e">>] }

InitMenu ==
    /\ \E rows \in SeqsUpTo(MaxLoaded, SheetRows)
                       \cup SeqsUpTo(MaxLoaded, ShortSheetRows) :
           data = load_existing_data(rows)
    /\ pc = "menu"
    /\ patient = <<>>
    /\ inp = <<>>
    /\ added = 0
    /\ saved = FALSE
    /\ wb_rows = <<>>
    /\ high_priority = <<>>
    /\ medium_priority = <<>>
    /\ out = Blank
    /\ arg = <<>>
    /\ res = <<>>

(* one patient typed in, with or without blood pressure and height *)
MenuBpLines == {<<>>, <<"1", "9", "0", " ", "/", " ", "1", "0", "0">>}

MenuHeightLines == {<<>>, <<"1", "7", "0">>}

NextMenu ==
    \/ AddName(<<" ", "r", "a", "h", "i", "m", " ", "k", "h", "a", "n">>)
    \/ AddAge(<<"7">>)
    \/ AddGender(<<"m">>)
    \/ AddPhone(<<>>)
    \/ \E line \in MenuBpLines : AddBloodPressure(line)
    \/ AddBloodGroup(<<>>)
    \/ AddBloodSugar(<<>>)
    \/ AddWeight(<<"9", "5">>)
    \/ \E line \in MenuHeightLines : AddHeight(line)
    \/ MenuView
    \/ SearchNoData
    \/ \E line \in NameSearchLines : SearchByName(line)
    \/ \E line \in BloodGroupSearchLines : SearchByBloodGroup(line)
    \/ \E min_line, max_line \in AgeSearchLines :
           SearchByAge(min_line, max_line)
    \/ \E line \in ConditionLines : SearchByHealth(line)
    \/ SearchInvalidChoice
    \/ MenuSave
    \/ MenuReport
    \/ MenuExit
    \/ MenuInvalid

SpecMenu == InitMenu /\ [][NextMenu]_vars

(* ------------------- analyze_blood_pressure on its own ---------------- *)

MaxNeg == 2

BpText(s, d) == IntToStr(s) \o <<"/">> \o IntToStr(d)

InitBP ==
    /\ arg \in ((-MaxNeg)..MaxSys) \X ((-MaxNeg)..MaxDia)
    /\ pc = "bp_in"
    /\ res = <<>>
    /\ data = <<>>
    /\ patient = <<>>
    /\ inp = <<>>
    /\ added = 0
    /\ saved = FALSE
    /\ wb_rows = <<>>
    /\ high_priority = <<>>
    /\ medium_priority = <<>>
    /\ out = Blank

ClassifyBP ==
    /\ pc = "bp_in"
    /\ res' = analyze_blood_pressure(BpText(arg[1], arg[2]))
    /\ pc' = "bp_done"
    /\ UNCHANGED <<data, patient, inp, added, saved, wb_rows,
                   high_priority, medium_priority, out, arg>>

NextBP == ClassifyBP

SpecBP == InitBP /\ [][NextBP]_vars

(* ----------------------- categorize_bmi on its own -------------------- *)

MaxBmi == 4100

(* the text of n hundredths: -2 is -0.02, 1850 is 18.50 *)
Hundredths(n) ==
    LET digits(k) ==
            NatToStr(k \div 100) \o <<".">> \o NatToStr((k \div 10) % 10)
                \o NatToStr(k % 10)
    IN  IF n < 0 THEN <<"-">> \o digits(-n) ELSE digits(n)

InitBmiCat ==
    /\ arg \in (-MaxNeg)..MaxBmi
    /\ pc = "cat_in"
    /\ res = <<>>
    /\ data = <<>>
    /\ patient = <<>>
    /\ inp = <<>>
    /\ added = 0
    /\ saved = FALSE
    /\ wb_rows = <<>>
    /\ high_priority = <<>>
    /\ medium_priority = <<>>
    /\ out = Blank

CategorizeBmi ==
    /\ pc = "cat_in"
    /\ res' = categorize_bmi(Hundredths(arg))
    /\ pc' = "cat_done"
    /\ UNCHANGED <<data, patient, inp, added, saved, wb_rows,
                   high_priority, medium_priority, out, arg>>

NextBmiCat == CategorizeBmi

SpecBmiCat == InitBmiCat /\ [][NextBmiCat]_vars

(* --------------------- analyze_blood_sugar on its own ----------------- *)

MaxSugar == 1200

(* the cell texts float() accepts: a number of hundredths, or "nan" *)
SugarArgs == ({"number"} \X ((-MaxNeg)..MaxSugar)) \cup {<<"nan", 0>>}

SugarText(a) == IF a[1] = "nan" THEN <<"n", "a", "n">> ELSE Hundredths(a[2])

InitSugar ==
    /\ arg \in SugarArgs
    /\ pc = "sugar_in"
    /\ res = <<>>
    /\ data = <<>>
    /\ patient = <<>>
    /\ inp = <<>>
    /\ added = 0
    /\ saved = FALSE
    /\ wb_rows = <<>>
    /\ high_priority = <<>>
    /\ medium_priority = <<>>
    /\ out = Blank

ClassifySugar ==
    /\ pc = "sugar_in"
    /\ res' = analyze_blood_sugar(SugarText(arg))
    /\ pc' = "sugar_done"
    /\ UNCHANGED <<data, patient, inp, added, saved, wb_rows,
                   high_priority, medium_priority, out, arg>>

NextSugar == ClassifySugar

SpecSugar == InitSugar /\ [][NextSugar]_vars

(* -------------------------- feet_to_cm on its own --------------------- *)

MaxFeet == 12

MaxInches == 12

(* ways of typing a height with the numbers f and i *)
FeetShapes ==
    {"f", "f.i", "fft", "f feet", "f'i", "f'i\"", "f feet i inches",
     "F FT I IN", "f i", "f'i\"i", "tall", ""}

FeetText(shape, f, i) ==
    LET ft == NatToStr(f)
        in == NatToStr(i)
    IN  CASE shape = "f" -> <<" ">> \o ft
          [] shape = "f.i" -> ft \o <<".">> \o in
          [] shape = "fft" -> ft \o <<"f", "t">>
          [] shape = "f feet" -> ft \o <<" ", "f", "e", "e", "t">>
          [] shape = "f'i" -> ft \o <<"'">> \o in
          [] shape = "f'i\"" -> ft \o <<"'">> \o in \o <<"\"">>
          [] shape = "f feet i inches" ->
                 ft \o <<" ", "f", "e", "e", "t", " ">> \o in
                    \o <<" ", "i", "n", "c", "h", "e", "s">>
          [] shape = "F FT I IN" ->
                 ft \o <<" ", "F", "T", " ">> \o in \o <<" ", "I", "N">>
          [] shape = "f i" -> ft \o <<" ">> \o in
          [] shape = "f'i\"i" -> ft \o <<"'">> \o in \o <<"\"">> \o in
          [] shape = "tall" -> <<"t", "a", "l", "l">>
          [] OTHER -> <<>>

InitFeet ==
    /\ arg \in FeetShapes \X (0..MaxFeet) \X (0..MaxInches)
    /\ pc = "feet_in"
    /\ res = <<>>
    /\ data = <<>>
    /\ patient = <<>>
    /\ inp = <<>>
    /\ added = 0
    /\ saved = FALSE
    /\ wb_rows = <<>>
    /\ high_priority = <<>>
    /\ medium_priority = <<>>
    /\ out = Blank

ConvertFeet ==
    /\ pc = "feet_in"
    /\ res' = feet_to_cm(FeetText(arg[1], arg[2], arg[3]))
    /\ pc' = "feet_done"
    /\ UNCHANGED <<data, patient, inp, added, saved, wb_rows,
                   high_priority, medium_priority, out, arg>>

NextFeet == ConvertFeet

SpecFeet == InitFeet /\ [][NextFeet]_vars

(* ------------------------ calculate_bmi on its own -------------------- *)

MaxWeightTenths == 720

MaxHeightCm == 180

(* the text of n tenths: 705 is 70.5 *)
Tenths(n) == NatToStr(n \div 10) \o <<".">> \o NatToStr(n % 10)

(* a weight in tenths of a kilogram and a height of 0 or of a grown-up in
   centimetres, as texts; or a text that is no number in place of either *)
BmiArgs ==
    ({"numbers"} \X (0..MaxWeightTenths)
        \X {h \in 0..MaxHeightCm : h = 0 \/ h >= 160})
        \cup ({"no weight", "no height", "empty weight", "empty height"}
                 \X {700} \X {0, 175})

WeightText(a) ==
    IF a[1] = "no weight" THEN <<"k", "g">>
    ELSE IF a[1] = "empty weight" THEN <<>>
    ELSE Tenths(a[2])

HeightText(a) ==
    IF a[1] = "no height" THEN <<"t", "a", "l", "l">>
    ELSE IF a[1] = "empty height" THEN <<>>
    ELSE NatToStr(a[3])

InitBmi ==
    /\ arg \in BmiArgs
    /\ pc = "bmi_in"
    /\ res = <<>>
    /\ data = <<>>
    /\ patient = <<>>
    /\ inp = <<>>
    /\ added = 0
    /\ saved = FALSE
    /\ wb_rows = <<>>
    /\ high_priority = <<>>
    /\ medium_priority = <<>>
    /\ out = Blank

CalculateBmi ==
    /\ pc = "bmi_in"
    /\ res' = calculate_bmi(WeightText(arg), HeightText(arg))
    /\ pc' = "bmi_done"
    /\ UNCHANGED <<data, patient, inp, added, saved, wb_rows,
                   high_priority, medium_priority, out, arg>>

NextBmi == CalculateBmi

SpecBmi == InitBmi /\ [][NextBmi]_vars

(* ------------------------ validate_phone on its own ------------------- *)

MaxPhoneDigits == 14

PhoneStarts ==
    {<<"0", "1">>, <<"8", "8", "0">>, <<"1", "7">>, <<"0", "2">>,
     <<"8", "8", "1">>}

(* ways of typing a number: bare, 01712-345678, +880..., 017 12345678,
   (017)12345678 *)
PhoneStyles == {"bare", "dash", "plus", "space", "brackets"}

(* n digits that begin with start *)
PhoneDigits(start, n) ==
    [k \in 1..n |-> IF k <= Len(start) THEN start[k] ELSE Digits[(k % 10) + 1]]

PhoneText(style, d) ==
    CASE style = "dash" -> SubSeq(d, 1, 5) \o <<"-">> \o SubSeq(d, 6, Len(d))
      [] style = "plus" -> <<"+">> \o d
      [] style = "space" -> SubSeq(d, 1, 3) \o <<" ">> \o SubSeq(d, 4, Len(d))
      [] style = "brackets" ->
             <<"(">> \o SubSeq(d, 1, 3) \o <<")">> \o SubSeq(d, 4, Len(d))
      [] OTHER -> d

InitPhone ==
    /\ arg \in PhoneStyles \X PhoneStarts \X (8..MaxPhoneDigits)
    /\ pc = "phone_in"
    /\ res = <<>>
    /\ data = <<>>
    /\ patient = <<>>
    /\ inp = <<>>
    /\ added = 0
    /\ saved = FALSE
    /\ wb_rows = <<>>
    /\ high_priority = <<>>
    /\ medium_priority = <<>>
    /\ out = Blank

ValidatePhone ==
    /\ pc = "phone_in"
    /\ res' = validate_phone(PhoneText(arg[1], PhoneDigits(arg[2], arg[3])))
    /\ pc' = "phone_done"
    /\ UNCHANGED <<data, patient, inp, added, saved, wb_rows,
                   high_priority, medium_priority, out, arg>>

NextPhone == ValidatePhone

SpecPhone == InitPhone /\ [][NextPhone]_vars

(* -------------- the advisories of add_patient for every age ----------- *)

MaxAge == 120

(* the patient as it stands when the prompts are over: an accepted age,
   and blood pressure and blood sugar either skipped or measured *)
AgedPatient(age_val, measured) ==
    [c \in {columns[k] : k \in 1..10} |->
        IF c = "Name" THEN <<"A", "l", "i">>
        ELSE IF c = "Age" THEN IntToStr(age_val)
        ELSE IF c = "Gender" THEN <<"M">>
        ELSE IF c = "Blood Pressure" /\ measured
             THEN <<"1", "2", "0", "/", "8", "0">>
        ELSE IF c = "Blood Sugar" /\ measured THEN <<"5">>
        ELSE <<>>]

InitAge ==
    /\ arg \in (0..MaxAge) \X BOOLEAN
    /\ pc = "aged_in"
    /\ res = <<>>
    /\ data = <<>>
    /\ patient = <<>>
    /\ inp = <<>>
    /\ added = 0
    /\ saved = FALSE
    /\ wb_rows = <<>>
    /\ high_priority = <<>>
    /\ medium_priority = <<>>
    /\ out = Blank

FinishAged ==
    /\ pc = "aged_in"
    /\ res' = FinishPatient(AgedPatient(arg[1], arg[2]))["Health Comments"]
    /\ pc' = "aged_done"
    /\ UNCHANGED <<data, patient, inp, added, saved, wb_rows,
                   high_priority, medium_priority, out, arg>>

NextAge == FinishAged

SpecAge == InitAge /\ [][NextAge]_vars

(* ------------------ feet_to_cm and back through cm_to_feet ------------ *)

MaxRoundFeet == 17

MaxRoundInches == 11

InitRound ==
    /\ arg \in (0..MaxRoundFeet) \X (0..MaxRoundInches)
    /\ pc = "round_in"
    /\ res = <<>>
    /\ data = <<>>
    /\ patient = <<>>
    /\ inp = <<>>
    /\ added = 0
    /\ saved = FALSE
    /\ wb_rows = <<>>
    /\ high_priority = <<>>
    /\ medium_priority = <<>>
    /\ out = Blank

(* cm_to_feet(feet_to_cm("f'i")): the two numbers go through lines
   136-141, the centimetres through lines 149-153 *)
RoundTrip ==
    /\ pc = "round_in"
    /\ \E height_cm \in {feet_to_cm(FeetText("f'i", arg[1], arg[2]))} :
           res' = cm_to_feet([val |-> height_cm.val, err |-> height_cm.err])
    /\ pc' = "round_done"
    /\ UNCHANGED <<data, patient, inp, added, saved, wb_rows,
                   high_priority, medium_priority, out, arg>>

NextRound == RoundTrip

SpecRound == InitRound /\ [][NextRound]_vars

(* -------------------------- cm_to_feet on its own --------------------- *)

(* centimetres in hundredths *)
MaxCmHundredths == 32000

InitCm ==
    /\ arg \in 0..MaxCmHundredths
    /\ pc = "cm_in"
    /\ res = <<>>
    /\ data = <<>>
    /\ patient = <<>>
    /\ inp = <<>>
    /\ added = 0
    /\ saved = FALSE
    /\ wb_rows = <<>>
    /\ high_priority = <<>>
    /\ medium_priority = <<>>
    /\ out = Blank

ConvertCm ==
    /\ pc = "cm_in"
    /\ res' = cm_to_feet(Double(arg * (Scale \div 100)))
    /\ pc' = "cm_done"
    /\ UNCHANGED <<data, patient, inp, added, saved, wb_rows,
                   high_priority, medium_priority, out, arg>>

NextCm == ConvertCm

SpecCm == InitCm /\ [][NextCm]_vars

(* ------------------------------ claims -------------------------------- *)

(* The reading s/d of a text, as the claims speak of it. *)
BpReading(t) ==
    LET pair(sys, dia) ==
            IF Count(t, "/") = 1 /\ sys.ok /\ dia.ok
            THEN [ok |-> TRUE, s |-> sys.val, d |-> dia.val]
            ELSE [ok |-> FALSE, s |-> 0, d |-> 0]
        split(cut) ==
            pair(ParseInt(SubSeq(t, 1, cut - 1)),
                 ParseInt(SubSeq(t, cut + 1, Len(t))))
    IN  split(Index(t, "/"))

BpOf(p) == BpReading(Get(p, "Blood Pressure"))

(* The value g of a Blood Sugar cell, in 1/Scale units. *)
SugarOf(p) ==
    LET f == ParseFloat(Get(p, "Blood Sugar"))
    IN  [ok |-> Get(p, "Blood Sugar") # <<>> /\ f.ok /\ ~f.nan, g |-> f.val]

InHigh(k) == \E e \in 1..Len(high_priority) : high_priority[e].ref = k

InMedium(k) == \E e \in 1..Len(medium_priority) : medium_priority[e].ref = k

BandCriticalOrHigh(p) ==
    \/ /\ BpOf(p).ok
       /\ \/ BpOf(p).s >= 180 \/ BpOf(p).d >= 120
          \/ (140 <= BpOf(p).s /\ BpOf(p).s <= 179)
          \/ (90 <= BpOf(p).d /\ BpOf(p).d <= 119)
    \/ /\ SugarOf(p).ok
       /\ SugarOf(p).g >= 7 * Scale + 8 * (Scale \div 10)

BpBandMediumOrLow(p) ==
    /\ BpOf(p).ok
    /\ ~(BpOf(p).s >= 180 \/ BpOf(p).d >= 120)
    /\ ~((140 <= BpOf(p).s /\ BpOf(p).s <= 179)
         \/ (90 <= BpOf(p).d /\ BpOf(p).d <= 119))
    /\ \/ (130 <= BpOf(p).s /\ BpOf(p).s <= 139)
       \/ (80 <= BpOf(p).d /\ BpOf(p).d <= 89)
       \/ (120 <= BpOf(p).s /\ BpOf(p).s <= 129 /\ BpOf(p).d < 80)

SugarBandMediumOrLow(p) ==
    /\ SugarOf(p).ok
    /\ \/ SugarOf(p).g < 3 * Scale + 9 * (Scale \div 10)
       \/ /\ 5 * Scale + 6 * (Scale \div 10) <= SugarOf(p).g
          /\ SugarOf(p).g < 7 * Scale + 8 * (Scale \div 10)

(* C1: in the saved Health Alerts sheet, every record whose blood pressure
   is in the CRITICAL or HIGH band, or whose blood sugar is in the CRITICAL
   or HIGH band, is in the HIGH priority group. *)
C1_HighBandsInHigh ==
    saved => \A k \in 1..Len(wb_rows) :
                 BandCriticalOrHigh(wb_rows[k]) => InHigh(k)

(* C2: in the saved Health Alerts sheet, every record that does not qualify
   for HIGH and whose blood pressure or blood sugar is in a MEDIUM or LOW
   band is in the MEDIUM priority group. *)
C2_MediumBandsInMedium ==
    saved => \A k \in 1..Len(wb_rows) :
                 (/\ ~BandCriticalOrHigh(wb_rows[k])
                  /\ ~InHigh(k)
                  /\ \/ BpBandMediumOrLow(wb_rows[k])
                     \/ SugarBandMediumOrLow(wb_rows[k]))
                 => InMedium(k)

(* The rules of the blood-pressure classifier in their fixed order. *)
BpRules(s, d) ==
    << [holds |-> s >= 180 \/ d >= 120, result |-> BP_CRISIS],
       [holds |-> (140 <= s /\ s <= 179) \/ (90 <= d /\ d <= 119),
        result |-> BP_HIGH],
       [holds |-> (130 <= s /\ s <= 139) \/ (80 <= d /\ d <= 89),
        result |-> BP_SLIGHTLY_HIGH],
       [holds |-> (120 <= s /\ s <= 129) /\ d < 80, result |-> BP_ELEVATED],
       [holds |-> s < 120 /\ d < 80, result |-> BP_NORMAL],
       [holds |-> s < 90 \/ d < 60, result |-> BP_LOWER],
       [holds |-> TRUE, result |-> BP_RECORDED] >>

FirstMatch(rules) ==
    rules[CHOOSE k \in 1..Len(rules) :
              rules[k].holds /\ \A j \in 1..(k - 1) : ~rules[j].holds].result

(* C3: for every integer pair (s, d), analyze_blood_pressure returns the
   result of the first rule, in the fixed order, whose condition holds; the
   pair (135, 95) yields the high-BP result. *)
C3_FirstMatchWins ==
    pc = "bp_done" =>
        /\ res = FirstMatch(BpRules(arg[1], arg[2]))
        /\ arg = <<135, 95>> => res = BP_HIGH

C3_Witness == pc = "bp_done" /\ arg = <<135, 95>> /\ res = BP_HIGH

(* A vital of the record triggers HIGH in the alert builder. *)
TriggersHigh(p) ==
    \/ analyze_blood_pressure(Get(p, "Blood Pressure")) = BP_CRISIS
    \/ analyze_blood_sugar(Get(p, "Blood Sugar")) \in {SUGAR_VERY_HIGH, SUGAR_LOW}
    \/ analyze_bmi_health(Get(p, "BMI"))
           \in {BMI_SEVERELY_UNDERWEIGHT, BMI_SEVERELY_OBESE, BMI_MORBIDLY_OBESE}

(* A vital of the record triggers MEDIUM in the alert builder. *)
TriggersMedium(p) ==
    \/ analyze_blood_sugar(Get(p, "Blood Sugar")) = SUGAR_HIGH
    \/ analyze_bmi_health(Get(p, "BMI")) = BMI_OBESE

HighEntry(k) ==
    high_priority[CHOOSE e \in 1..Len(high_priority) : high_priority[e].ref = k]

(* C4: no record is in both the HIGH and the MEDIUM group; a record of
   which any vital triggers HIGH is in HIGH only, whatever MEDIUM triggers
   it also has; a record with systolic 190 and sugar 6 is in HIGH only and
   its reasons include the hypertensive-crisis text. *)
C4_HighTakesPrecedence ==
    saved => \A k \in 1..Len(wb_rows) :
                 /\ ~(InHigh(k) /\ InMedium(k))
                 /\ TriggersHigh(wb_rows[k]) => InHigh(k) /\ ~InMedium(k)
                 /\ (/\ BpOf(wb_rows[k]).ok
                     /\ BpOf(wb_rows[k]).s = 190
                     /\ SugarOf(wb_rows[k]).ok
                     /\ SugarOf(wb_rows[k]).g = 6 * Scale)
                    => /\ InHigh(k) /\ ~InMedium(k)
                       /\ \E a \in 1..Len(HighEntry(k).alerts) :
                              HighEntry(k).alerts[a] = BP_CRISIS

C4_Witness ==
    /\ saved
    /\ \E k \in 1..Len(wb_rows) :
           /\ TriggersHigh(wb_rows[k]) /\ TriggersMedium(wb_rows[k])
           /\ InHigh(k)
    /\ \E k \in 1..Len(wb_rows) :
           /\ BpOf(wb_rows[k]).ok /\ BpOf(wb_rows[k]).s = 190
           /\ SugarOf(wb_rows[k]).ok /\ SugarOf(wb_rows[k]).g = 6 * Scale
           /\ InHigh(k)

(* What the Health Alerts sheet holds for record k: its group and reasons. *)
AlertOf(k) ==
    IF InHigh(k) THEN [group |-> "HIGH", reasons |-> HighEntry(k).alerts]
    ELSE IF InMedium(k)
    THEN [group |-> "MEDIUM",
          reasons |-> medium_priority[CHOOSE e \in 1..Len(medium_priority) :
                                          medium_priority[e].ref = k].alerts]
    ELSE [group |-> "none", reasons |-> <<>>]

SameVitals(p, q) ==
    /\ Get(p, "Blood Pressure") = Get(q, "Blood Pressure")
    /\ Get(p, "Blood Sugar") = Get(q, "Blood Sugar")
    /\ Get(p, "BMI") = Get(q, "BMI")

(* C5: the group and the reasons of a record depend only on its Blood
   Pressure, Blood Sugar and BMI cells: two records of the collection with
   the same three cells get the same group and reasons, whatever their
   stored Health Comments and their positions. *)
C5_AlertsFromRawVitals ==
    saved => \A i, j \in 1..Len(wb_rows) :
                 SameVitals(wb_rows[i], wb_rows[j]) => AlertOf(i) = AlertOf(j)

C5_Witness ==
    /\ saved
    /\ \E i, j \in 1..Len(wb_rows) :
           /\ i < j
           /\ SameVitals(wb_rows[i], wb_rows[j])
           /\ wb_rows[i]["Health Comments"] # wb_rows[j]["Health Comments"]
           /\ AlertOf(i).group = "HIGH"
           /\ AlertOf(j).group = "HIGH"

Ordered(list) ==
    /\ \A e \in 1..Len(list) :
           /\ list[e].ref \in 1..Len(wb_rows)
           /\ list[e].name = wb_rows[list[e].ref]["Name"]
    /\ \A e, f \in 1..Len(list) : e < f => list[e].ref < list[f].ref

(* C6: within the HIGH group and within the MEDIUM group the entries stand
   in the order of their records in the collection. *)
C6_GroupsKeepInputOrder ==
    saved => Ordered(high_priority) /\ Ordered(medium_priority)

C6_Witness ==
    /\ saved
    /\ Len(high_priority) >= 2
    /\ high_priority[1].name # high_priority[2].name

(* The positions of the records add_patient appended in this session. *)
Appended == (Len(data) - added + 1)..Len(data)

(* C7: every record appended by add_patient has a non-empty BMI if and only
   if both its Weight and its Height (cm) are non-empty. *)
C7_BmiIffWeightAndHeight ==
    \A k \in Appended :
        (data[k]["BMI"] # <<>>)
            <=> (data[k]["Weight"] # <<>> /\ data[k]["Height (cm)"] # <<>>)

C7_Witness ==
    \E k \in Appended :
        /\ data[k]["Weight"] = <<"1">>
        /\ data[k]["Height (cm)"] = <<"3", "0", "0">>
        /\ data[k]["BMI"] = <<"0", ".", "1">>

(* C8: in every reachable state every record of the collection has an age
   that is an integer in [0, 120]. *)
C8_AgeInRange ==
    \A k \in 1..Len(data) :
        /\ ParseInt(Get(data[k], "Age")).ok
        /\ 0 <= ParseInt(Get(data[k], "Age")).val
        /\ ParseInt(Get(data[k], "Age")).val <= 120

Cell(p, key, Good(_)) == key \in DOMAIN p => p[key] = <<>> \/ Good(p[key])

BpGood(t) ==
    LET good(bp) ==
            /\ bp.ok
            /\ 50 <= bp.s /\ bp.s <= 250
            /\ 30 <= bp.d /\ bp.d <= 150
            /\ bp.s > bp.d
    IN  good(BpReading(t))

Within(t, lo, hi) ==
    LET good(f) == f.ok /\ ~f.nan /\ lo <= f.val /\ f.val <= hi
    IN  good(ParseFloat(t))

SugarGood(t) == Within(t, Scale, 44 * Scale + 4 * (Scale \div 10))

WeightGood(t) == Within(t, Scale, 500 * Scale)

HeightGood(t) == Within(t, 30 * Scale, 300 * Scale)

(* a height line that reads, as feet and inches or as centimetres, as a
   height of 30 to 300 cm *)
HeightLineGood(t) ==
    LET good(cm) ==
            ~cm.none /\ 30 * Scale <= cm.val /\ cm.val <= 300 * Scale
    IN  HeightGood(t) \/ good(feet_to_cm(t))

VitalsGood(p) ==
    /\ Cell(p, "Blood Pressure", BpGood)
    /\ Cell(p, "Blood Sugar", SugarGood)
    /\ Cell(p, "Weight", WeightGood)
    /\ Cell(p, "Height (cm)", HeightGood)

Rejected(at, Good(_)) ==
    (pc = at /\ Strip(inp') # <<>> /\ ~Good(Strip(inp')))
        => (pc' = at /\ patient' = patient /\ data' = data)

(* C9: every vital add_patient stores, in the record under way and in the
   records it appended, is empty or within its range (and systolic above
   diastolic); a line that is out of range or unparsable leaves the same
   prompt in place and stores nothing. *)
C9_ValidatedVitals ==
    /\ [](VitalsGood(patient) /\ \A k \in Appended : VitalsGood(data[k]))
    /\ [][/\ Rejected("bp", BpGood)
          /\ Rejected("sugar", SugarGood)
          /\ Rejected("weight", WeightGood)
          /\ Rejected("height", HeightLineGood)]_vars

C9_Witness ==
    /\ pc = "height"
    /\ inp = <<"3", "0", "1">>
    /\ patient["Blood Pressure"] # <<>>
    /\ patient["Blood Sugar"] # <<>>
    /\ patient["Weight"] # <<>>

BpTexts ==
    {BP_INVALID_FORMAT, BP_INVALID_INPUT, BP_CRISIS, BP_HIGH,
     BP_SLIGHTLY_HIGH, BP_ELEVATED, BP_NORMAL, BP_LOWER, BP_RECORDED}

SugarTexts ==
    {SUGAR_LOW, SUGAR_NORMAL, SUGAR_BORDERLINE, SUGAR_HIGH, SUGAR_VERY_HIGH,
     SUGAR_RECORDED}

BmiTexts ==
    {BMI_SEVERELY_UNDERWEIGHT, BMI_UNDERWEIGHT, BMI_HEALTHY, BMI_OVERWEIGHT,
     BMI_OBESE, BMI_SEVERELY_OBESE, BMI_MORBIDLY_OBESE}

NoEntry(p, texts) == \A t \in texts : ~Contains(t, p["Health Comments"])

(* C10: in a record appended by add_patient, a vital that was skipped
   contributes no advisory: with an empty Blood Pressure the Health Comments
   hold no blood-pressure entry, and likewise for an empty Blood Sugar and
   an empty BMI. *)
C10_SkippedVitalNoEntry ==
    \A k \in Appended :
        /\ data[k]["Blood Pressure"] = <<>> => NoEntry(data[k], BpTexts)
        /\ data[k]["Blood Sugar"] = <<>> => NoEntry(data[k], SugarTexts)
        /\ data[k]["BMI"] = <<>> => NoEntry(data[k], BmiTexts)

AgeTexts == {AGE_SENIOR, AGE_INFANT, AGE_CHILD, AGE_ADOLESCENT}

(* the entries of a Health Comments cell, split at the separators *)
RECURSIVE Entries(_)
Entries(text) ==
    IF text = <<>> THEN <<>>
    ELSE LET bar == Index(text, "|")
         IN  IF bar = 0 THEN <<text>>
             ELSE <<SubSeq(text, 1, bar - 1)>>
                      \o Entries(SubSeq(text, bar + 1, Len(text)))

Rank(entry) ==
    IF entry \in BpTexts THEN 1
    ELSE IF entry \in SugarTexts THEN 2
    ELSE IF entry \in BmiTexts THEN 3
    ELSE IF entry \in AgeTexts THEN 4
    ELSE 0

NonEmpty(results) == SelectSeq(results, LAMBDA r : r # <<>>)

(* C11: the Health Comments of a record appended by add_patient are the
   non-empty results of the blood-pressure, blood-sugar and BMI classifiers
   and the age band, in that order: every entry is one of these advisories,
   and the entries' classes strictly increase from blood pressure to age
   band, so two advisories keep that relative order and none is repeated. *)
C11_AdvisoriesInFixedOrder ==
    \A k \in Appended :
        LET p == data[k]
            ordered(entries) ==
                /\ \A i \in 1..Len(entries) : Rank(entries[i]) \in 1..4
                /\ \A i, j \in 1..Len(entries) :
                       i < j => Rank(entries[i]) < Rank(entries[j])
                /\ entries = NonEmpty(
                       <<analyze_blood_pressure(p["Blood Pressure"]),
                         analyze_blood_sugar(p["Blood Sugar"]),
                         analyze_bmi_health(p["BMI"])>>)
                       \o age_comment(ParseInt(p["Age"]).val)
        IN  ordered(Entries(p["Health Comments"]))

C11_Witness ==
    \E k \in Appended :
        LET four(entries) ==
                /\ Len(entries) = 4
                /\ entries[1] = BP_CRISIS
                /\ entries[4] = AGE_SENIOR
        IN  four(Entries(data[k]["Health Comments"]))

(* C12: categorize_bmi puts a BMI v, given in hundredths, in the category
   of its half-open interval: below 16 Severely Underweight, 16 to below
   18.5 Underweight, 18.5 to below 25 Normal, 25 to below 30 Overweight,
   30 to below 35 Obese Class I, 35 to below 40 Obese Class II, 40 and above
   Obese Class III; a boundary value is in the upper category. *)
C12_BmiCategoryByInterval ==
    pc = "cat_done" =>
        /\ arg < 1600 <=> res = <<"Severely", "Underweight">>
        /\ (1600 <= arg /\ arg < 1850) <=> res = <<"Underweight">>
        /\ (1850 <= arg /\ arg < 2500) <=> res = <<"Normal">>
        /\ (2500 <= arg /\ arg < 3000) <=> res = <<"Overweight">>
        /\ (3000 <= arg /\ arg < 3500) <=> res = <<"Obese", "Class", "I">>
        /\ (3500 <= arg /\ arg < 4000) <=> res = <<"Obese", "Class", "II">>
        /\ arg >= 4000 <=> res = <<"Obese", "Class", "III">>

C12_Witness == pc = "cat_done" /\ arg = 1850 /\ res = <<"Normal">>

(* the band of a sugar value of g hundredths of a mmol/L *)
SugarBand(g) ==
    IF g < 390 THEN SUGAR_LOW
    ELSE IF g < 560 THEN SUGAR_NORMAL
    ELSE IF g < 780 THEN SUGAR_BORDERLINE
    ELSE IF g < 1110 THEN SUGAR_HIGH
    ELSE SUGAR_VERY_HIGH

(* C13: analyze_blood_sugar puts a value g in the band of its half-open
   interval (below 3.9 low, 3.9 to below 5.6 normal, 5.6 to below 7.8
   borderline, 7.8 to below 11.1 high, 11.1 and above very high), and the
   fallback text "Sugar level recorded" is never returned. *)
C13_SugarBandsCoverAll ==
    pc = "sugar_done" =>
        /\ arg[1] = "number" => res = SugarBand(arg[2])
        /\ res # SUGAR_RECORDED

AgeEntries(text) == SelectSeq(Entries(text), LAMBDA e : e \in AgeTexts)

(* C14: for every age in 0..120 the Health Comments built by add_patient
   hold at most one age-band advisory, the first that matches: senior from
   60, infant up to 2, child from 3 to 12, adolescent from 13 to 19, and
   none from 20 to 59. *)
C14_AgeBandFirstMatch ==
    pc = "aged_done" =>
        AgeEntries(res) =
            IF arg[1] >= 60 THEN <<AGE_SENIOR>>
            ELSE IF arg[1] <= 2 THEN <<AGE_INFANT>>
            ELSE IF 3 <= arg[1] /\ arg[1] <= 12 THEN <<AGE_CHILD>>
            ELSE IF 13 <= arg[1] /\ arg[1] <= 19 THEN <<AGE_ADOLESCENT>>
            ELSE <<>>

C14_Witness ==
    /\ pc = "aged_done"
    /\ arg[1] = 2
    /\ AgeEntries(res) = <<AGE_INFANT>>

Values(f) == {f[x] : x \in DOMAIN f}

(* every percentage a summary shows *)
Percentages(st) ==
    {st.gender.male_percentage, st.gender.female_percentage}
        \cup Values(st.blood_group.percentage)
        \cup (IF st.bmi.measured > 0 THEN Values(st.bmi.percentage) ELSE {})
        \cup {st.coverage[t].percentage : t \in DOMAIN st.coverage}

(* C15 as stated: the report on an empty collection shows a summary in
   which every percentage is 0. *)
C15_EmptySummaryAllZero ==
    (out.op = "report" /\ data = <<>>) =>
        /\ out.note = "done"
        /\ \A x \in Percentages(out.statistics.summary) : x = 0

(* C15, amended: with an empty collection the report prints its no-data
   notice and shows no statistics, save_to_excel prints its no-data notice
   and writes no workbook, and the program does not stop on an error. *)
C15_EmptySummaryNoData ==
    data = <<>> =>
        /\ out.op = "report" => out.note = "no data" /\ out.statistics = <<>>
        /\ out.op = "save" => out.note = "no data"
        /\ ~saved /\ summary_sheet = <<>>
        /\ pc # "crashed"

C15_Witness == data = <<>> /\ out.op = "report" /\ pc = "menu"

(* C16: a step changes the collection only when add_patient completes, and
   then it keeps every record in place and puts one record at the end;
   view, search, save, report and every prompt leave it as it was. *)
C16_AppendOnly ==
    [][IF pc = "height" /\ pc' = "menu"
       THEN /\ Len(data') = Len(data) + 1
            /\ SubSeq(data', 1, Len(data)) = data
       ELSE data' = data]_vars

C16_Witness ==
    /\ added = 1
    /\ Len(data) = 2
    /\ out.op = "search by age"
    /\ out.shown = <<1, 2>>

Without(d, k) == SubSeq(d, 1, k - 1) \o SubSeq(d, k + 1, Len(d))

Filled(d, field) == Cardinality({j \in 1..Len(d) : Get(d[j], field) # <<>>})

(* the statistics st of the records d count no record that lacks the field *)
Excluded(st, d) ==
    \A k \in 1..Len(d) :
        LET p == d[k]
            rest == Without(d, k)
        IN  /\ Get(p, "Phone") = <<>> =>
                   st.coverage.phone.completed = Filled(rest, "Phone")
            /\ Get(p, "Blood Pressure") = <<>> =>
                   st.coverage.bp.completed = Filled(rest, "Blood Pressure")
            /\ Get(p, "Blood Sugar") = <<>> =>
                   st.coverage.sugar.completed = Filled(rest, "Blood Sugar")
            /\ Get(p, "Blood Group") = <<>> =>
                   /\ st.coverage.blood_group.completed
                          = Filled(rest, "Blood Group")
                   /\ st.blood_group.tested = Filled(rest, "Blood Group")
                   /\ \A bg \in DOMAIN st.blood_group.count :
                          st.blood_group.count[bg]
                              = Cardinality({j \in 1..Len(rest) :
                                    Strip(Get(rest[j], "Blood Group")) = bg})
            /\ Get(p, "BMI") = <<>> =>
                   /\ st.coverage.bmi.completed = Filled(rest, "BMI")
                   /\ st.bmi.measured = Filled(rest, "BMI")
                   /\ st.bmi.measured > 0 =>
                          \A cat \in DOMAIN st.bmi.count :
                              st.bmi.count[cat]
                                  = Cardinality({j \in 1..Len(rest) :
                                        /\ Get(rest[j], "BMI") # <<>>
                                        /\ categorize_bmi(Get(rest[j], "BMI"))
                                               = cat})

(* an alert entry holds no reason from a vital its record lacks *)
NoAlertFor(entry, p) ==
    \A i \in 1..Len(entry.alerts) :
        /\ Get(p, "Blood Pressure") = <<>> => entry.alerts[i] \notin BpTexts
        /\ Get(p, "Blood Sugar") = <<>> => entry.alerts[i] \notin SugarTexts
        /\ Get(p, "BMI") = <<>> => entry.alerts[i] \notin BmiTexts

NumberOrEmpty(cell) == cell = <<>> \/ ParseFloat(cell).ok

(* C17: records whose optional fields are empty or missing do not make the
   summary or the alert building fail, whether printed as a report or
   written by a save; they are not counted in the screening coverage, the
   blood-group histogram or the BMI histogram of a field they lack, and
   they get no alert for it. *)
C17_EmptyFieldsTolerated ==
    /\ (/\ out.op \in {"report", "save"}
        /\ data # <<>>
        /\ \A k \in 1..Len(data) : NumberOrEmpty(Get(data[k], "BMI")))
           => out.note = "done"
    /\ (out.op = "report" /\ out.note = "done")
           => Excluded(out.statistics.summary, data)
    /\ saved =>
           /\ Excluded(summary_sheet, wb_rows)
           /\ \A k \in 1..Len(high_priority) :
                  NoAlertFor(high_priority[k], wb_rows[high_priority[k].ref])
           /\ \A k \in 1..Len(medium_priority) :
                  NoAlertFor(medium_priority[k],
                             wb_rows[medium_priority[k].ref])

C17_Witness ==
    /\ out.op = "report"
    /\ out.note = "done"
    /\ saved
    /\ Len(wb_rows) = 2
    /\ \E k \in 1..Len(data) : DOMAIN data[k] = {"Name", "Age", "Gender"}
    /\ \E k \in 1..Len(data) :
           Get(data[k], "Height (cm)") = <<>> /\ Get(data[k], "Weight") # <<>>

(* the number f.i in thousandths *)
Decimal(f, i) == f * 1000 + (IF i < 10 THEN i * 100 ELSE i * 10)

(* n thousandths as centimetres or, up to 10, as feet; in 1/Scale units *)
OneNumber(n) ==
    IF n > 10000 THEN [none |-> FALSE, val |-> n * (Scale \div 1000)]
    ELSE [none |-> FALSE, val |-> n * 3048]

Number(result) == [none |-> result.none, val |-> result.val]

TwoNumbers(f, i) == [none |-> FALSE, val |-> (f * 12 + i) * 254000]

(* C18: by the count of numbers left in the typed height, feet_to_cm
   returns: for one number n, n itself when n > 10 and n * 30.48 otherwise;
   for two numbers f and i, (f * 12 + i) * 2.54; for none or more than two,
   None. *)
C18_FeetToCmByTokenCount ==
    pc = "feet_done" =>
        LET f == arg[2]
            i == arg[3]
        IN  Number(res) =
                  CASE arg[1] \in {"f", "fft", "f feet"} -> OneNumber(f * 1000)
                    [] arg[1] = "f.i" -> OneNumber(Decimal(f, i))
                    [] arg[1] \in {"f'i", "f'i\"", "f feet i inches",
                                   "F FT I IN", "f i"} -> TwoNumbers(f, i)
                    [] OTHER -> [none |-> TRUE, val |-> 0]

C18_Witness ==
    /\ pc = "feet_done"
    /\ arg = <<"f feet i inches", 5, 6>>
    /\ Number(res) = [none |-> FALSE, val |-> 16764000]

(* r tenths is w10 tenths of a kilogram over the square of h centimetres
   taken as metres, rounded to the nearest tenth *)
NearestTenth(r, w10, h) ==
    LET off == r * h * h - w10 * 10000
    IN  2 * (IF off < 0 THEN -off ELSE off) <= h * h

(* C19: for a numeric weight and a numeric height other than 0,
   calculate_bmi returns weight / (height_cm / 100)^2 rounded to one
   decimal (70 kg at 175 cm gives 22.9); for a height of 0 or an input that
   is no number it returns the empty result. *)
C19_BmiRoundedOrEmpty ==
    pc = "bmi_done" =>
        IF arg[1] = "numbers" /\ arg[3] # 0
        THEN /\ ~res.empty /\ ~res.nan
             /\ res.val % (Scale \div 10) = 0
             /\ NearestTenth(res.val \div (Scale \div 10), arg[2], arg[3])
        ELSE res.empty

C19_Witness ==
    /\ pc = "bmi_done"
    /\ arg = <<"numbers", 700, 175>>
    /\ res = [empty |-> FALSE, nan |-> FALSE, val |-> 2290000]

(* C20: validate_phone returns +88 and the digits for 11 digits that begin
   with 01, + and the digits for 13 digits that begin with 880, +8801 and
   the digits for exactly 10 digits, and otherwise the text as typed, with
   its other characters. *)
C20_PhoneByDigitCount ==
    pc = "phone_done" =>
        LET n == arg[3]
            digits == PhoneDigits(arg[2], n)
        IN  res = IF n = 11 /\ arg[2] = <<"0", "1">>
                  THEN <<"+", "8", "8">> \o digits
                  ELSE IF n = 13 /\ arg[2] = <<"8", "8", "0">>
                  THEN <<"+">> \o digits
                  ELSE IF n = 10 THEN <<"+", "8", "8", "0", "1">> \o digits
                  ELSE PhoneText(arg[1], digits)

C20_Witness ==
    /\ pc = "phone_done"
    /\ arg = <<"dash", <<"0", "1">>, 11>>
    /\ res = <<"+", "8", "8", "0", "1", "3", "4", "5", "6", "7", "8", "9",
               "0", "1">>

(* the text f'i" *)
FeetAndInches(f, i) == NatToStr(f) \o <<"'">> \o NatToStr(i) \o <<"\"">>

(* C21 as claimed: for every whole number of feet f and whole inches i in
   0..11, cm_to_feet of the centimetre value of (f feet, i inches) is the
   text f'i". *)
C21_RoundTripEveryFeet ==
    (pc = "round_done" /\ arg[2] <= 11) =>
        res = FeetAndInches(arg[1], arg[2])

(* C21 as amended: for every whole number of feet f in 0..16 and whole
   inches i in 0..11, cm_to_feet of the centimetre value of (f feet,
   i inches) is the text f'i". *)
C21_RoundTripToSixteenFeet ==
    (pc = "round_done" /\ arg[1] <= 16 /\ arg[2] <= 11) =>
        res = FeetAndInches(arg[1], arg[2])

C21_Witness ==
    /\ pc = "round_done"
    /\ arg = <<5, 6>>
    /\ res = <<"5", "'", "6", "\"">>

(* the texts f'i" that lie within binary rounding of h hundredths of a
   centimetre: h / 2.54 inches is from 12 f to 12 (f + 1) and at most half
   an inch from 12 f + i.  Off the half inches there is one such text, of
   f = floor(total_inches / 12) and i = round(total_inches mod 12). *)
FeetInchesOf(h) ==
    {FeetAndInches(f, i) : <<f, i>> \in
        {fi \in (((h \div 3048) - 1)..(h \div 3048)) \X (0..12) :
            /\ fi[1] >= 0
            /\ 3048 * fi[1] <= h
            /\ h <= 3048 * (fi[1] + 1)
            /\ 2 * (h - 254 * (12 * fi[1] + fi[2])) <= 254
            /\ 2 * (254 * (12 * fi[1] + fi[2]) - h) <= 254}}

(* C22: cm_to_feet(cm) is feet'inches" with feet = floor(total_inches / 12)
   and inches = round(total_inches mod 12) for total_inches = cm / 2.54;
   inches that round to 12 stay 12 and the feet are not raised, so the
   inches run over 0..12. *)
C22_InchesNotCarried ==
    pc = "cm_done" =>
        /\ res \in FeetInchesOf(arg)
        /\ (arg % 127 # 0 =>
               res = FeetAndInches(arg \div 3048,
                                   RoundDiv(arg % 3048, 254)))
        /\ (2 * (arg % 3048) > 23 * 254 =>
               res = FeetAndInches(arg \div 3048, 12))

C22_Witness ==
    /\ pc = "cm_done"
    /\ arg = 18200
    /\ res = <<"5", "'", "1", "2", "\"">>

(* C23: two summaries computed on the same record collection are identical
   in every count, percentage, histogram and age and BMI statistic,
   whatever was viewed, searched or saved in between. *)
C23_SummaryRepeats ==
    (Len(res) = 2 /\ arg[1] = arg[2]) => res[1] = res[2]

C23_Witness ==
    /\ Len(res) = 2
    /\ arg[1] = arg[2]
    /\ Len(arg[2]) = 2
    /\ res[2].note = "done"
    /\ res[2].statistics.summary.total = 2
    /\ out.op # "report"

(* C24: for every integer pair (s, d) one of the first five rules (crisis,
   high, slightly high, elevated, normal) holds, so analyze_blood_pressure
   returns neither the lower-than-normal result nor the recorded fallback;
   85/55 is reported as normal. *)
C24_LowBpNeverReported ==
    pc = "bp_done" =>
        /\ \E k \in 1..5 : BpRules(arg[1], arg[2])[k].holds
        /\ res \in {BP_CRISIS, BP_HIGH, BP_SLIGHTLY_HIGH, BP_ELEVATED,
                    BP_NORMAL}
        /\ arg = <<85, 55>> => res = BP_NORMAL

C24_Witness == pc = "bp_done" /\ arg = <<85, 55>> /\ res = BP_NORMAL

(* a record with high blood pressure, high blood sugar or obesity *)
NeedsFollowUp(p) == IsHighBp(p) \/ IsHighSugar(p) \/ IsObese(p)

(* C25: the total of patients needing follow-up counts each patient at most
   once: it never exceeds the number of records and is the number of
   records with at least one of the three conditions. *)
C25_FollowUpCountsPatientsOnce ==
    (out.op = "report" /\ out.note = "done") =>
        /\ out.statistics.summary.alerts.follow_up <= Len(data)
        /\ out.statistics.summary.alerts.follow_up
               = Cardinality({k \in 1..Len(data) : NeedsFollowUp(data[k])})

(* C26: when the name typed to add_patient is empty or only spaces, the
   call ends at once: the collection is unchanged, no record is appended, no
   further field is asked for and save_to_excel is not called. *)
C26_EmptyNameAborts ==
    [][(pc = "menu" /\ out'.op = "none" /\ Strip(inp') = <<>>) =>
           /\ pc' = "menu"
           /\ data' = data
           /\ added' = added
           /\ patient' = patient
           /\ <<saved, wb_rows, high_priority, medium_priority>>'
                  = <<saved, wb_rows, high_priority, medium_priority>>]_vars

C26_Witness ==
    /\ pc = "menu"
    /\ inp = <<" ", " ", " ">>
    /\ out = Blank
    /\ saved
    /\ added = 0
    /\ Len(data) = 1
====
